---- MODULE Spec2Model ----
(***************************************************************************)
(* A model of the AutoFliff bot: the bounded retry executor of             *)
(* fliff_automator.py (FliffAutomator._retry_operation) and the driver of  *)
(* main.py (FliffBotOrchestrator.run) that sequences the automator, the    *)
(* Telegram notifier and the GitHub workflow manager.                      *)
(*                                                                         *)
(* Money amounts are integers in cents (10.00 is 1000, 1.80 is 180).       *)
(* Two specifications share the variables:                                 *)
(*   SpecRetry  one call of _retry_operation on an arbitrary operation     *)
(*              whose outcome on every call is fixed in advance by `plan`, *)
(*   Spec       one execution of FliffBotOrchestrator.run against a page   *)
(*              whose primitives may succeed or raise on every attempt.    *)
(* Further specifications look inside single operations of the automator:  *)
(*   SpecParlay one attempt of execute_betting_strategy on a sports page,  *)
(*   SpecFacade a client calling the operations of one FliffAutomator in   *)
(*              any order,                                                 *)
(*   SpecMain   the process: main() constructing the components from the   *)
(*              environment, run(), a keyboard interrupt, and the exit.    *)
(* The variable `unit` carries one operation looked at on its own:         *)
(*   SpecDisable (disable_workflow), SpecNotify (the send operations),     *)
(*   SpecWagers (check_open_wagers), SpecBalance (get_balance),            *)
(*   SpecOdds (_convert_odds_to_decimal), SpecLogin (login),               *)
(*   SpecPlaceBet (place_bet).                                             *)
(***************************************************************************)
EXTENDS Integers, Sequences, FiniteSets, TLC

VARIABLES
    retry,                \* the activation of _retry_operation in progress
    plan,                 \* SpecRetry: what the wrapped operation does on its i-th call
    pc,                   \* position of run() ("none" outside Spec)
    balance,              \* run(): local `balance`
    has_blocking_wagers,  \* run(): local `has_blocking_wagers`
    bet_placed,           \* run(): local `bet_placed`
    screenshot_path,      \* run(): local `screenshot_path`
    final_balance,        \* run(): local `final_balance`
    exc,                  \* exception raised by a statement of run()'s try block itself
    slip_payout,          \* payout shown on the page's bet slip, in cents
    calls,                \* every call run() made on a collaborator, in order
    sent,                 \* every notification run() asked the notifier to send, in order
    reads,                \* every balance value get_balance returned to run(), in order
    files,                \* screenshot files on disk
    parlay,               \* one attempt of execute_betting_strategy (SpecParlay)
    session,              \* FliffAutomator's browser, context and page, and the browser side
    facade,               \* SpecFacade: what a client of FliffAutomator called and got back
    proc,                 \* the process: environment, main()'s position, exit code
    unit                  \* one operation of a component looked at on its own

retryVars == <<retry, plan>>
runVars == <<pc, balance, has_blocking_wagers, bet_placed, screenshot_path,
             final_balance, exc, slip_payout, calls, sent, reads, files>>
vars == <<retry, plan, pc, balance, has_blocking_wagers, bet_placed,
          screenshot_path, final_balance, exc, slip_payout, calls, sent, reads,
          files, parlay, session, facade, proc, unit>>

----------------------------------------------------------------------------
(* Bounds of the model *)

\* largest max_retries tried in SpecRetry
MaxRetries == 4
\* largest base delay (seconds) tried in SpecRetry
MaxDelay == 2

\* largest number of game cards on the sports page in SpecParlay
MaxGames == 3
\* number of calls a client makes on one FliffAutomator in SpecFacade
MaxCalls == 3

(* Program constants *)

\* _retry_operation(..., max_retries=3, ...)
DefaultMaxRetries == 3
\* _retry_operation(..., delay=2, ...)
DefaultDelay == 2
\* FliffBotOrchestrator.goal_balance = 10.00
goal_balance == 1000
\* FliffBotOrchestrator.min_bet_threshold = 1.80
min_bet_threshold == 180
\* FliffBotOrchestrator.min_payout_threshold = 50.00
min_payout_threshold == 5000
\* FliffBotOrchestrator.max_payout_threshold = 100.00
max_payout_threshold == 10000

(* Inputs *)

\* errors a page primitive can raise inside a wrapped operation
Errors == {"TimeoutError", "ValueError"}
\* values an arbitrary wrapped operation can return (SpecRetry)
Results == {1, 2}
\* balances the account page can display, in cents
Balances == {50, 179, 180, 500, 999, 1000, 1500}
\* payouts the bet slip can display after a parlay attempt, in cents
Payouts == {0, 4999, 5000, 7500, 12000}

NoError == "none"
\* Python's None for run()'s screenshot_path
NonePath == "None"
BetSlipPath == "screenshots/bet_slip.png"
ErrorPath == "screenshots/error.png"

----------------------------------------------------------------------------
(* Odds quotes.  A quote is the text of a proposal's label: a sign ("+", "-",
   "" for bare decimal text, "x" for text that is no number) and the number
   after the sign in hundredths ("+150" is ["+", 15000], "2.5" is ["", 250]). *)

Quote(sign, h) == [sign |-> sign, h |-> h]
Plus150 == Quote("+", 15000)
Plus500 == Quote("+", 50000)
Minus200 == Quote("-", 20000)
Minus400 == Quote("-", 40000)
Decimal250 == Quote("", 250)
NotANumber == Quote("x", 0)

(* _convert_odds_to_decimal: the decimal multiplier as a fraction num/den, or
   the error float() or the division raises. *)
_convert_odds_to_decimal(q) ==
    IF q.sign = "x" THEN [ok |-> FALSE, num |-> 0, den |-> 1, err |-> "ValueError"]
    ELSE IF q.sign = "+"
    THEN [ok |-> TRUE, num |-> q.h + 10000, den |-> 10000, err |-> "none"]
    ELSE IF q.sign = "-"
    THEN IF q.h = 0
         THEN [ok |-> FALSE, num |-> 0, den |-> 1, err |-> "ZeroDivisionError"]
         ELSE [ok |-> TRUE, num |-> 10000 + q.h, den |-> q.h, err |-> "none"]
    ELSE [ok |-> TRUE, num |-> q.h, den |-> 100, err |-> "none"]

\* `if -250 <= odds_decimal <= 200`, on the fraction num/den with den > 0
SafeOddsFilter(d) == -250 * d.den <= d.num /\ d.num <= 200 * d.den

(* The American-equivalent odds of a quote lie in [-250, +200]: +n with
   n <= 200, -n with n <= 250, a decimal d >= 2 with (d-1)*100 <= 200, a
   decimal 1 < d < 2 with -100/(d-1) >= -250. *)
WithinAmericanRange(q) ==
    IF q.sign = "+" THEN q.h <= 20000
    ELSE IF q.sign = "-" THEN q.h <= 25000
    ELSE q.sign = "" /\ 140 <= q.h /\ q.h <= 300

\* the unlocked proposals of one game card, as the quotes they display
Cards ==
    {<<>>, <<Plus150>>, <<Plus500>>, <<Minus400, Plus150>>, <<Plus150, Minus200>>,
     <<NotANumber, Plus150>>, <<Plus150, NotANumber>>, <<Decimal250, Plus500>>}

\* payouts the bet slip can display after an addition, in cents (0: no amount)
SlipPayouts == {0, 3000, 5000, 7500, 10000, 12000}

----------------------------------------------------------------------------
(* Outcome of one call of a wrapped operation: a returned value or a raised
   error.  Python's None is the value 0; True and False are 1 and 0. *)

OkOut(v) == [ok |-> TRUE, val |-> v, err |-> NoError]
ErrOut(e) == [ok |-> FALSE, val |-> 0, err |-> e]
Outcomes == {OkOut(v) : v \in Results} \cup {ErrOut(e) : e \in Errors}

IdleFrame ==
    [op |-> "none", max |-> DefaultMaxRetries, delay |-> DefaultDelay,
     attempt |-> 0, calls |-> 0, sleeps |-> <<>>, log |-> <<>>,
     status |-> "idle", result |-> 0, error |-> NoError]

(* The state of one attempt of _execute_strategy: its locals (safe_games,
   current_payout, parlay_selections, the loop index), the proposals it
   clicked, the payouts it read and what it returned; slip lists the
   proposals clicked on the page since execute_betting_strategy was called. *)
IdleParlay ==
    [pc |-> "none", games |-> <<>>, min |-> 0, max |-> 0, safe_games |-> <<>>,
     idx |-> 1, current_payout |-> 100, parlay_selections |-> <<>>,
     clicked |-> <<>>, payouts |-> <<>>, result |-> "none", slip |-> <<>>]

(* The automator's references (self.browser, self.context, self.page; 0 is
   None, n is the resource made by the n-th launch) and the browser side:
   how many browsers were launched, how often _setup_browser ran, and which
   resources are open. *)
FreshSession ==
    [browser |-> 0, context |-> 0, page |-> 0, launched |-> 0, setups |-> 0,
     open |-> {}]

\* what a client of the facade has done so far (SpecFacade)
IdleFacade ==
    [ncalls |-> 0, op |-> "none", page_at_call |-> 0, setups_at_call |-> 0,
     closes |-> 0, setups_at_close |-> 0, torn_down |-> FALSE,
     last_close |-> [log |-> <<>>, raised |-> FALSE, had_context |-> FALSE,
                     had_browser |-> FALSE],
     last_shot |-> [kind |-> "none", path |-> "", raised |-> FALSE,
                    usable |-> FALSE]]

\* the environment variables the components read without a default
RequiredConfig ==
    {"FLIFF_USERNAME", "FLIFF_PASSWORD", "GITHUB_TOKEN", "GITHUB_REPOSITORY",
     "TELEGRAM_BOT_TOKEN", "TELEGRAM_CHAT_ID"}

(* The process: the environment it was started with, the position of main(),
   the exit code (-1: none yet), the error main() logged, the exception run()
   let through, and whether and when (number of calls made) a keyboard
   interrupt arrived. *)
IdleProc ==
    [pc |-> "none", config |-> RequiredConfig, exit_code |-> -1,
     error |-> NoError, run_raised |-> NoError, interrupted |-> FALSE,
     intr_at |-> 0, swallowed |-> FALSE]

(* One operation of a component looked at on its own: which one, where it
   stands, what it was given, what the outside answers, what it did to the
   outside in order, and how it ended. *)
IdleUnit ==
    [fn |-> "none", pc |-> "none", input |-> <<>>, env |-> <<>>, log |-> <<>>,
     result |-> "none", raised |-> FALSE]

\* entry of _retry_operation(operation, max_retries, delay, operation_name)
NewFrame(op, max_retries, delay) ==
    [IdleFrame EXCEPT !.op = op, !.max = max_retries, !.delay = delay,
                      !.status = "active"]

\* MUTANT of RetryStep: the first failure is raised at once, nothing is retried
RetryStepNoRetry(r, out) ==
    IF out.ok
    THEN [r EXCEPT !.calls = r.calls + 1, !.status = "returned", !.result = out.val]
    ELSE [r EXCEPT !.calls = r.calls + 1, !.status = "raised", !.error = out.err]

\* MUTANT of RetryStep: the error of the first failed attempt is the one raised
RetryStepFirstError(r, out) ==
    IF out.ok
    THEN [r EXCEPT !.calls = r.calls + 1, !.status = "returned", !.result = out.val]
    ELSE IF r.attempt = r.max - 1
         THEN [r EXCEPT !.calls = r.calls + 1, !.status = "raised",
                        !.error = IF r.log = <<>> THEN out.err ELSE r.log[1].err]
         ELSE [r EXCEPT !.calls = r.calls + 1,
                        !.log = Append(r.log, [attempt |-> r.attempt + 1,
                                               err |-> out.err,
                                               wait |-> r.delay * (2 ^ r.attempt)]),
                        !.sleeps = Append(r.sleeps, r.delay * (2 ^ r.attempt)),
                        !.attempt = r.attempt + 1]

\* MUTANT of RetryStep: the wait does not grow
RetryStepFixedDelay(r, out) ==
    IF out.ok
    THEN [r EXCEPT !.calls = r.calls + 1, !.status = "returned", !.result = out.val]
    ELSE IF r.attempt = r.max - 1
         THEN [r EXCEPT !.calls = r.calls + 1, !.status = "raised", !.error = out.err]
         ELSE [r EXCEPT !.calls = r.calls + 1,
                        !.log = Append(r.log, [attempt |-> r.attempt + 1,
                                               err |-> out.err,
                                               wait |-> r.delay]),
                        !.sleeps = Append(r.sleeps, r.delay),
                        !.attempt = r.attempt + 1]

(* MUTANT of RetryStep: an operation on the page never gives up; after the
   last failed attempt the loop starts over *)
RetryStepStartOver(r, out) ==
    IF out.ok
    THEN [r EXCEPT !.calls = r.calls + 1, !.status = "returned", !.result = out.val]
    ELSE IF r.attempt = r.max - 1
         THEN IF r.op = "login"
              THEN [r EXCEPT !.calls = r.calls + 1, !.status = "raised",
                             !.error = out.err]
              ELSE [r EXCEPT !.calls = 0, !.attempt = 0, !.log = <<>>,
                             !.sleeps = <<>>]
         ELSE [r EXCEPT !.calls = r.calls + 1,
                        !.log = Append(r.log, [attempt |-> r.attempt + 1,
                                               err |-> out.err,
                                               wait |-> r.delay * (2 ^ r.attempt)]),
                        !.sleeps = Append(r.sleeps, r.delay * (2 ^ r.attempt)),
                        !.attempt = r.attempt + 1]

(* One iteration of the loop of _retry_operation, given what the call of
   operation() did: return its value, or re-raise on the last attempt, or
   log, sleep delay * 2^attempt and go to the next attempt. *)
RetryStep(r, out) ==
    IF out.ok
    THEN [r EXCEPT !.calls = r.calls + 1, !.status = "returned", !.result = out.val]
    ELSE IF r.attempt = r.max - 1
         THEN [r EXCEPT !.calls = r.calls + 1, !.status = "raised", !.error = out.err]
         ELSE [r EXCEPT !.calls = r.calls + 1,
                        !.log = Append(r.log, [attempt |-> r.attempt + 1,
                                               err |-> out.err,
                                               wait |-> r.delay * (2 ^ r.attempt)]),
                        !.sleeps = Append(r.sleeps, r.delay * (2 ^ r.attempt)),
                        !.attempt = r.attempt + 1]

----------------------------------------------------------------------------
(* The browser session of FliffAutomator *)

Res(kind, id) == <<kind, id>>

\* self.page refers to a page that is still open
PageUsable(s) == s.page # 0 /\ Res("page", s.page) \in s.open

(* _setup_browser: launch, new_context, new_page and set_default_timeout in
   turn; each may raise, leaving the references assigned so far; the error is
   logged and re-raised. *)
SetupResults(s) ==
    LET n == s.launched + 1
        s0 == [s EXCEPT !.setups = @ + 1]
        s1 == [s0 EXCEPT !.browser = n, !.launched = n,
                         !.open = @ \cup {Res("browser", n)}]
        s2 == [s1 EXCEPT !.context = n, !.open = @ \cup {Res("context", n)}]
        s3 == [s2 EXCEPT !.page = n, !.open = @ \cup {Res("page", n)}]
    IN  {[session |-> s0, err |-> "BrowserError"],
         [session |-> s1, err |-> "BrowserError"],
         [session |-> s2, err |-> "BrowserError"],
         [session |-> s3, err |-> "BrowserError"],
         [session |-> s3, err |-> NoError]}

(* What an operation body that drives self.page can do: with self.page None
   the first call on it raises AttributeError, on a closed page the driver
   raises, on an open page `normal` is possible. *)
OnPage(s, normal) ==
    IF s.page = 0 THEN {[ok |-> FALSE, val |-> 0, err |-> "AttributeError"]}
    ELSE IF ~PageUsable(s) THEN {[ok |-> FALSE, val |-> 0, err |-> "TargetClosedError"]}
    ELSE normal

\* MUTANT of CloseResults: one try block around both releases
CloseResultsOneTry(s) ==
    LET ctx == IF s.context = 0 THEN {"skip"} ELSE {"ok", "raised"}
        brw == IF s.browser = 0 THEN {"skip"} ELSE {"ok", "raised"}
    IN  {[session |->
             [s EXCEPT !.open =
                 {r \in @ : ~(c = "ok" /\ r[1] \in {"context", "page"}
                                       /\ r[2] = s.context)
                          /\ ~(c # "raised" /\ b = "ok" /\ r[2] = s.browser)}],
          log |-> (IF c = "skip" THEN <<>> ELSE <<[what |-> "context", how |-> c]>>)
                  \o (IF b = "skip" \/ c = "raised" THEN <<>>
                      ELSE <<[what |-> "browser", how |-> b]>>),
          raised |-> FALSE] : c \in ctx, b \in brw}

(* close(): if self.context, context.close() in its own try; if
   self.browser, browser.close() in its own try; an exception of either is
   logged and swallowed.  Closing a context closes its pages, closing a
   browser closes its contexts and pages.  No reference is reset. *)
CloseResults(s) ==
    LET ctx == IF s.context = 0 THEN {"skip"} ELSE {"ok", "raised"}
        brw == IF s.browser = 0 THEN {"skip"} ELSE {"ok", "raised"}
    IN  {[session |->
             [s EXCEPT !.open =
                 {r \in @ : ~(c = "ok" /\ r[1] \in {"context", "page"}
                                       /\ r[2] = s.context)
                          /\ ~(b = "ok" /\ r[2] = s.browser)}],
          log |-> (IF c = "skip" THEN <<>> ELSE <<[what |-> "context", how |-> c]>>)
                  \o (IF b = "skip" THEN <<>> ELSE <<[what |-> "browser", how |-> b]>>),
          raised |-> FALSE] : c \in ctx, b \in brw}

ShotPath(kind) == IF kind = "bet" THEN BetSlipPath ELSE ErrorPath

\* MUTANT of ScreenshotResults: the page is used outside the try block
ScreenshotResultsUnguarded(kind, s) ==
    IF s.page = 0
    THEN {[path |-> "", wrote |-> FALSE, raised |-> TRUE]}
    ELSE {[path |-> "", wrote |-> FALSE, raised |-> FALSE]}
            \cup (IF PageUsable(s)
                  THEN {[path |-> ShotPath(kind), wrote |-> TRUE, raised |-> FALSE]}
                  ELSE {})

(* take_bet_screenshot / take_error_screenshot: the capture writes the file
   and the path is returned, or anything raised inside the try block (also
   the use of a page that is None or closed) gives the empty string. *)
ScreenshotResults(kind, s) ==
    {[path |-> "", wrote |-> FALSE, raised |-> FALSE]}
        \cup (IF PageUsable(s)
              THEN {[path |-> ShotPath(kind), wrote |-> TRUE, raised |-> FALSE]}
              ELSE {})

----------------------------------------------------------------------------
(* SpecRetry: _retry_operation on an arbitrary operation *)

InitRetry ==
    /\ \E n \in 1..MaxRetries, d \in 1..MaxDelay :
          retry = NewFrame("operation", n, d)
    /\ plan \in [1..MaxRetries -> Outcomes]
    /\ unit = IdleUnit
    /\ pc = "none"
    /\ balance = 0
    /\ has_blocking_wagers = FALSE
    /\ bet_placed = FALSE
    /\ screenshot_path = NonePath
    /\ final_balance = 0
    /\ exc = NoError
    /\ slip_payout = 0
    /\ calls = <<>>
    /\ sent = <<>>
    /\ reads = <<>>
    /\ files = {}
    /\ parlay = IdleParlay
    /\ session = FreshSession
    /\ facade = IdleFacade
    /\ proc = IdleProc

\* the wrapped operation is called once more and the loop handles its outcome
operation ==
    /\ retry.op = "operation"
    /\ retry.status = "active"
    /\ retry' = RetryStep(retry, plan[retry.calls + 1])
    /\ UNCHANGED <<plan, unit, parlay, session, facade, proc, runVars>>

NextRetry == operation

SpecRetry == InitRetry /\ [][NextRetry]_vars

----------------------------------------------------------------------------
(* The collaborators as run() sees them *)

\* the public and private methods class FliffAutomator defines
FliffAutomatorMethods ==
    {"_setup_browser", "_retry_operation", "login", "get_balance",
     "check_open_wagers", "check_and_claim_rewards", "execute_betting_strategy",
     "_convert_odds_to_decimal", "_get_current_payout", "place_bet",
     "take_bet_screenshot", "take_error_screenshot", "close"}

\* the parameters of TelegramNotifier.send_bet_confirmation
SendBetConfirmationParams == {"wager_amount", "potential_payout", "screenshot_path"}

\* the keyword arguments run() passes to send_bet_confirmation
BetConfirmationKeywords ==
    {"wager_amount", "potential_potential_payout", "screenshot_path"}

\* the operations of the automator that run() can invoke
AutomatorOps ==
    {"login", "get_balance", "check_open_wagers", "check_and_claim_rewards",
     "execute_betting_strategy", "get_current_payout", "place_bet",
     "take_bet_screenshot", "take_error_screenshot", "close"}

\* MUTANT of Truthy: `is not None`, so the empty path counts as a path
TruthyNotNone(path) == path # NonePath

\* `if screenshot_path` : None and the empty string are false
Truthy(path) == path \notin {NonePath, ""}

Note(kind, text, amount, payout, path) ==
    [kind |-> kind, text |-> text, amount |-> amount, payout |-> payout,
     path |-> path]

StartedText == "Bot started execution"
InsufficientText == "Rewards collected but balance still insufficient for betting."
NoParlayText == "No suitable parlay could be constructed from available games."

\* send_status_update(message)
StatusNote(text, amount) == Note("status", text, amount, 0, "")
\* send_success_notification(balance)
SuccessNote(b) == Note("success", "", b, 0, "")
\* send_bet_confirmation(wager_amount, potential_payout, screenshot_path)
BetNote(wager, payout, path) == Note("bet", "", wager, payout, path)

\* MUTANT of ErrorNote: the screenshot path is not passed on
ErrorNoteNoPath(e, path) == Note("error", e, 0, 0, "")

\* send_error_notification(str(e), screenshot_path)
ErrorNote(e, path) == Note("error", e, 0, 0, path)

\* MUTANT of AfterReturn: leaving the try block skips the cleanup
AfterReturnNoCleanup == "done"

\* where control goes when the try block of run() is left: the finally clause
AfterReturn == "finally"

\* MUTANT of GoalMet: a balance equal to the goal does not count
GoalMetStrict(b) == b > goal_balance

\* `if balance >= self.goal_balance`
GoalMet(b) == b >= goal_balance

\* MUTANT of ShouldCollect: rewards are claimed whatever the balance
ShouldCollectAnyBalance(b, blocking) == ~blocking

\* `balance < self.min_bet_threshold and not has_blocking_wagers`
ShouldCollect(b, blocking) == b < min_bet_threshold /\ ~blocking

\* MUTANT of StillInsufficient: the check after claiming is missing
StillInsufficientNever(b) == FALSE

\* `if balance < self.min_bet_threshold` after the re-read
StillInsufficient(b) == b < min_bet_threshold

\* MUTANT of CanBet: open wagers are not looked at
CanBetIgnoringWagers(b, blocking) == b >= min_bet_threshold

\* `balance >= self.min_bet_threshold and not has_blocking_wagers`
CanBet(b, blocking) == b >= min_bet_threshold /\ ~blocking

\* a balance read as run() received it, with the number of calls made so far
Read(at, val) == [at |-> at, val |-> val, ncalls |-> Len(calls)]

\* the wrapped operation of the current activation has returned to run()
Returned(op) == retry.op = op /\ retry.status = "returned"

\* a statement of the try block raised: a wrapped operation after its last
\* attempt, or a statement of run() itself
Raised == retry.status = "raised" \/ exc # NoError
RaisedError == IF exc # NoError THEN exc ELSE retry.error

TryPcs == {"login", "balance", "wagers", "claim", "rebalance", "strategy",
           "final_balance", "confirm"}

----------------------------------------------------------------------------
(* Spec: one execution of FliffBotOrchestrator.run *)

Init ==
    /\ retry = IdleFrame
    /\ plan = <<>>
    /\ unit = IdleUnit
    /\ pc = "start"
    /\ balance = 0
    /\ has_blocking_wagers = FALSE
    /\ bet_placed = FALSE
    /\ screenshot_path = NonePath
    /\ final_balance = 0
    /\ exc = NoError
    /\ slip_payout = 0
    /\ calls = <<>>
    /\ sent = <<>>
    /\ reads = <<>>
    /\ files = {}
    /\ parlay = IdleParlay
    /\ session = FreshSession
    /\ facade = IdleFacade
    /\ proc = IdleProc

\* one attempt of the operation wrapped by the current activation
Attempt(op, outs) ==
    /\ retry.op = op
    /\ retry.status = "active"
    /\ \E out \in outs : retry' = RetryStep(retry, out)

Failures == {ErrOut(e) : e \in Errors}

\* lines 96-97: both os.getenv values handed to page.fill are strings
HasCredentials(config) == {"FLIFF_USERNAME", "FLIFF_PASSWORD"} \subseteq config

(* What one attempt of login._login does to the session and how it ends:
   `if not self.page` runs _setup_browser, whose error ends the attempt; then
   the page is driven through the login flow, or a wait fails.  Without a
   credential page.fill is handed None and raises, so the attempt cannot get
   past lines 96-97.  `prompt` tells whether the attempt went through the
   wait for the location prompt (lines 103-109). *)
LoginResults(s, config) ==
    LET setup == IF s.page = 0 THEN SetupResults(s)
                 ELSE {[session |-> s, err |-> NoError]}
        flow(t) ==
            IF ~PageUsable(t)
            THEN {[out |-> o, prompt |-> FALSE] : o \in OnPage(t, {})}
            ELSE IF ~HasCredentials(config)
            THEN {[out |-> o, prompt |-> FALSE] :
                     o \in Failures \cup {ErrOut("TypeError")}}
            ELSE {[out |-> OkOut(0), prompt |-> TRUE]}
                 \cup {[out |-> o, prompt |-> b] : o \in Failures, b \in BOOLEAN}
    IN  UNION {IF r.err # NoError
               THEN {[session |-> r.session, out |-> ErrOut(r.err),
                      prompt |-> FALSE]}
               ELSE {[session |-> r.session, out |-> f.out,
                      prompt |-> f.prompt] : f \in flow(r.session)}
               : r \in setup}

\* login._login
_login ==
    /\ retry.op = "login"
    /\ retry.status = "active"
    /\ \E r \in LoginResults(session, proc.config) :
          /\ session' = r.session
          /\ retry' = RetryStep(retry, r.out)
    /\ UNCHANGED <<plan, unit, parlay, facade, proc, runVars>>

\* get_balance._get_balance: the displayed balance, or a wait or the parse fails
_get_balance ==
    /\ Attempt("get_balance",
               OnPage(session, {OkOut(b) : b \in Balances} \cup Failures))
    /\ UNCHANGED <<plan, unit, parlay, session, facade, proc, runVars>>

\* check_open_wagers._check_wagers: True (1) when a slip blocks, else False (0)
_check_wagers ==
    /\ Attempt("check_open_wagers",
               OnPage(session, {OkOut(0), OkOut(1)} \cup Failures))
    /\ UNCHANGED <<plan, unit, parlay, session, facade, proc, runVars>>

\* check_and_claim_rewards._claim_rewards
_claim_rewards ==
    /\ Attempt("check_and_claim_rewards",
               OnPage(session, {OkOut(0)} \cup Failures))
    /\ UNCHANGED <<plan, unit, parlay, session, facade, proc, runVars>>

(* execute_betting_strategy._execute_strategy: with no games or no safe
   proposals the slip is untouched and the result is False; otherwise legs are
   added, the slip shows payout p, and the result is True when p entered the
   band or ended at least at min_payout; a click or wait may fail after the
   slip changed. *)
_execute_strategy ==
    /\ \/ /\ Attempt("execute_betting_strategy", OnPage(session, {OkOut(0)}))
          /\ UNCHANGED slip_payout
       \/ \E p \in Payouts :
            /\ PageUsable(session)
            /\ slip_payout' = p
            /\ Attempt("execute_betting_strategy",
                       {OkOut(IF p >= min_payout_threshold THEN 1 ELSE 0)}
                          \cup Failures)
    /\ UNCHANGED <<plan, unit, parlay, session, facade, proc, pc, balance, has_blocking_wagers, bet_placed,
                   screenshot_path, final_balance, exc, calls, sent, reads, files>>

\* lines 44-51: the start notification, then automator.login()
RunStart ==
    /\ pc = "start"
    /\ sent' = Append(sent, StatusNote(StartedText, 0))
    /\ calls' = calls \o <<"send_status_update", "login">>
    /\ retry' = NewFrame("login", DefaultMaxRetries, DefaultDelay)
    /\ pc' = "login"
    /\ UNCHANGED <<plan, unit, parlay, session, facade, proc, balance, has_blocking_wagers, bet_placed, screenshot_path,
                   final_balance, exc, slip_payout, reads, files>>

\* line 55: login returned, automator.get_balance() is called
RunReadBalance ==
    /\ pc = "login"
    /\ Returned("login")
    /\ calls' = Append(calls, "get_balance")
    /\ retry' = NewFrame("get_balance", DefaultMaxRetries, DefaultDelay)
    /\ pc' = "balance"
    /\ UNCHANGED <<plan, unit, parlay, session, facade, proc, balance, has_blocking_wagers, bet_placed, screenshot_path,
                   final_balance, exc, slip_payout, sent, reads, files>>

\* lines 55-66: the goal check; success and disable, or the wager check
RunCheckGoal ==
    /\ pc = "balance"
    /\ Returned("get_balance")
    /\ balance' = retry.result
    /\ reads' = Append(reads, Read("initial", retry.result))
    /\ IF GoalMet(retry.result)
       THEN /\ sent' = Append(sent, SuccessNote(retry.result))
            /\ calls' = calls \o <<"send_success_notification", "disable_workflow">>
            /\ retry' = IdleFrame
            /\ pc' = AfterReturn
       ELSE /\ sent' = sent
            /\ calls' = Append(calls, "check_open_wagers")
            /\ retry' = NewFrame("check_open_wagers", DefaultMaxRetries, DefaultDelay)
            /\ pc' = "wagers"
    /\ UNCHANGED <<plan, unit, parlay, session, facade, proc, has_blocking_wagers, bet_placed, screenshot_path,
                   final_balance, exc, slip_payout, files>>

(* lines 85-91 and 115: the betting phase starts, with the two thresholds as
   min_payout and max_payout, or the try block ends *)
Phase2(b, blocking) ==
    IF CanBet(b, blocking)
    THEN /\ calls' = Append(calls, "execute_betting_strategy")
         /\ parlay' = [parlay EXCEPT !.min = min_payout_threshold,
                                     !.max = max_payout_threshold]
         /\ retry' = NewFrame("execute_betting_strategy", DefaultMaxRetries,
                              DefaultDelay)
         /\ pc' = "strategy"
    ELSE /\ calls' = calls
         /\ parlay' = parlay
         /\ retry' = IdleFrame
         /\ pc' = AfterReturn

\* lines 66-71: the wager check returned; rewards are claimed or phase 2 starts
RunResourceCollection ==
    /\ pc = "wagers"
    /\ Returned("check_open_wagers")
    /\ has_blocking_wagers' = (retry.result = 1)
    /\ IF ShouldCollect(balance, retry.result = 1)
       THEN /\ calls' = Append(calls, "check_and_claim_rewards")
            /\ retry' = NewFrame("check_and_claim_rewards", DefaultMaxRetries,
                                 DefaultDelay)
            /\ pc' = "claim"
            /\ parlay' = parlay
       ELSE Phase2(balance, retry.result = 1)
    /\ UNCHANGED <<plan, unit, session, facade, proc, balance, bet_placed, screenshot_path, final_balance, exc,
                   slip_payout, sent, reads, files>>

\* line 74: the rewards were claimed, the balance is read again
RunRereadBalance ==
    /\ pc = "claim"
    /\ Returned("check_and_claim_rewards")
    /\ calls' = Append(calls, "get_balance")
    /\ retry' = NewFrame("get_balance", DefaultMaxRetries, DefaultDelay)
    /\ pc' = "rebalance"
    /\ UNCHANGED <<plan, unit, parlay, session, facade, proc, balance, has_blocking_wagers, bet_placed, screenshot_path,
                   final_balance, exc, slip_payout, sent, reads, files>>

\* lines 74-83: the re-read balance; still insufficient, or phase 2 starts
RunRecheckBalance ==
    /\ pc = "rebalance"
    /\ Returned("get_balance")
    /\ balance' = retry.result
    /\ reads' = Append(reads, Read("after_claim", retry.result))
    /\ IF StillInsufficient(retry.result)
       THEN /\ sent' = Append(sent, StatusNote(InsufficientText, retry.result))
            /\ calls' = Append(calls, "send_status_update")
            /\ retry' = IdleFrame
            /\ pc' = AfterReturn
            /\ parlay' = parlay
       ELSE /\ sent' = sent
            /\ Phase2(retry.result, has_blocking_wagers)
    /\ UNCHANGED <<plan, unit, session, facade, proc, has_blocking_wagers, bet_placed, screenshot_path,
                   final_balance, exc, slip_payout, files>>

\* lines 88-113: the strategy returned; screenshot and balance read, or a status
RunAfterStrategy ==
    /\ pc = "strategy"
    /\ Returned("execute_betting_strategy")
    /\ bet_placed' = (retry.result = 1)
    /\ IF retry.result = 1
       THEN /\ \E shot \in ScreenshotResults("bet", session) :
                  /\ screenshot_path' = shot.path
                  /\ files' = IF shot.wrote THEN files \cup {shot.path} ELSE files
            /\ calls' = calls \o <<"take_bet_screenshot", "get_balance">>
            /\ retry' = NewFrame("get_balance", DefaultMaxRetries, DefaultDelay)
            /\ sent' = sent
            /\ pc' = "final_balance"
       ELSE /\ sent' = Append(sent, StatusNote(NoParlayText, 0))
            /\ calls' = Append(calls, "send_status_update")
            /\ retry' = IdleFrame
            /\ pc' = AfterReturn
            /\ UNCHANGED <<screenshot_path, files>>
    /\ UNCHANGED <<plan, unit, parlay, session, facade, proc, balance, has_blocking_wagers, final_balance, exc,
                   slip_payout, reads>>

(* lines 99-107: the final balance, then self.automator.get_current_payout(),
   an attribute FliffAutomator does not define, and send_bet_confirmation with
   a keyword it does not accept. *)
RunBetDetails ==
    /\ pc = "final_balance"
    /\ Returned("get_balance")
    /\ final_balance' = retry.result
    /\ reads' = Append(reads, Read("final", retry.result))
    /\ IF "get_current_payout" \notin FliffAutomatorMethods
       THEN /\ exc' = "AttributeError"
            /\ calls' = calls
            /\ sent' = sent
            /\ pc' = "confirm"
       ELSE IF ~(BetConfirmationKeywords \subseteq SendBetConfirmationParams)
       THEN /\ exc' = "TypeError"
            /\ calls' = Append(calls, "get_current_payout")
            /\ sent' = sent
            /\ pc' = "confirm"
       ELSE /\ exc' = exc
            /\ calls' = calls \o <<"get_current_payout", "send_bet_confirmation">>
            /\ sent' = Append(sent, BetNote(retry.result, slip_payout,
                                            screenshot_path))
            /\ pc' = AfterReturn
    /\ UNCHANGED <<retry, plan, unit, parlay, session, facade, proc, balance, has_blocking_wagers, bet_placed,
                   screenshot_path, slip_payout, files>>

\* MUTANT of Caught: the except clause names one error class only
CaughtOnlyTimeout(e) == e = "TimeoutError"

\* `except Exception as e`: everything but a KeyboardInterrupt
Caught(e) == e # "KeyboardInterrupt"

(* lines 117-120: the except clause: error screenshot, then error
   notification; what the clause does not catch, and what the clause itself
   raises, leaves run() after the finally clause. *)
RunExcept ==
    /\ pc \in TryPcs
    /\ Raised
    /\ IF ~Caught(RaisedError)
       THEN /\ proc' = [proc EXCEPT !.run_raised = RaisedError]
            /\ UNCHANGED <<screenshot_path, files, calls, sent>>
       ELSE \E shot \in ScreenshotResults("error", session) :
              IF shot.raised
              THEN /\ proc' = [proc EXCEPT !.run_raised = "AttributeError"]
                   /\ calls' = Append(calls, "take_error_screenshot")
                   /\ UNCHANGED <<screenshot_path, files, sent>>
              ELSE /\ screenshot_path' = shot.path
                   /\ files' = IF shot.wrote THEN files \cup {shot.path} ELSE files
                   /\ calls' = calls \o <<"take_error_screenshot",
                                          "send_error_notification">>
                   /\ sent' = Append(sent, ErrorNote(RaisedError, shot.path))
                   /\ proc' = proc
    /\ pc' = "finally"
    /\ UNCHANGED <<retry, plan, unit, parlay, session, facade, balance,
                   has_blocking_wagers, bet_placed, final_balance, exc,
                   slip_payout, reads>>

(* lines 122-134: the finally clause: close(), then the screenshot file is
   removed if it exists; an exception of close() is caught and logged, and
   the removal is skipped. *)
RunFinally ==
    /\ pc = "finally"
    /\ calls' = Append(calls, "close")
    /\ \E r \in CloseResults(session) :
          /\ session' = r.session
          /\ files' = IF ~r.raised /\ Truthy(screenshot_path)
                          /\ screenshot_path \in files
                      THEN files \ {screenshot_path}
                      ELSE files
    /\ pc' = "done"
    /\ UNCHANGED <<retry, plan, unit, parlay, facade, proc, balance,
                   has_blocking_wagers, bet_placed, screenshot_path,
                   final_balance, exc, slip_payout, sent, reads>>

Next ==
    \/ RunStart
    \/ _login
    \/ RunReadBalance
    \/ _get_balance
    \/ RunCheckGoal
    \/ _check_wagers
    \/ RunResourceCollection
    \/ _claim_rewards
    \/ RunRereadBalance
    \/ RunRecheckBalance
    \/ _execute_strategy
    \/ RunAfterStrategy
    \/ RunBetDetails
    \/ RunExcept
    \/ RunFinally

Spec == Init /\ [][Next]_vars

----------------------------------------------------------------------------
(* SpecMain: the process, from main() to its exit *)

\* the process starts in main() with some of the variables set
InitMain ==
    /\ retry = IdleFrame
    /\ plan = <<>>
    /\ unit = IdleUnit
    /\ pc = "none"
    /\ balance = 0
    /\ has_blocking_wagers = FALSE
    /\ bet_placed = FALSE
    /\ screenshot_path = NonePath
    /\ final_balance = 0
    /\ exc = NoError
    /\ slip_payout = 0
    /\ calls = <<>>
    /\ sent = <<>>
    /\ reads = <<>>
    /\ files = {}
    /\ parlay = IdleParlay
    /\ session = FreshSession
    /\ facade = IdleFacade
    /\ \E config \in SUBSET RequiredConfig :
          proc = [IdleProc EXCEPT !.pc = "main", !.config = config]

(* FliffBotOrchestrator.__init__, lines 32-35: FliffAutomator() reads no
   variable; GitHubAPIManager() and then TelegramNotifier() raise ValueError
   for the first of their variables that is missing. *)
ConstructionError(config) ==
    IF "GITHUB_TOKEN" \notin config THEN "ValueError"
    ELSE IF "GITHUB_REPOSITORY" \notin config THEN "ValueError"
    ELSE IF "TELEGRAM_BOT_TOKEN" \notin config THEN "ValueError"
    ELSE IF "TELEGRAM_CHAT_ID" \notin config THEN "ValueError"
    ELSE NoError

(* main, lines 138-140 and 144-146: the orchestrator is constructed; its
   error is logged and the process exits with 1, otherwise run() starts. *)
MainConstruct ==
    /\ proc.pc = "main"
    /\ IF ConstructionError(proc.config) # NoError
       THEN /\ proc' = [proc EXCEPT !.pc = "exited", !.exit_code = 1,
                                    !.error = ConstructionError(proc.config)]
            /\ pc' = pc
       ELSE /\ proc' = [proc EXCEPT !.pc = "run"]
            /\ pc' = "start"
    /\ UNCHANGED <<retry, plan, unit, parlay, session, facade, balance,
                   has_blocking_wagers, bet_placed, screenshot_path,
                   final_balance, exc, slip_payout, calls, sent, reads, files>>

(* A keyboard interrupt arrives while run() executes, at most once.
   Inside login's wait for the location prompt the bare `except:` of line 108
   takes it and the attempt goes on.  Anywhere else in the try block or in
   the except clause neither `except Exception` of _retry_operation nor that
   of run() takes it: the finally clause runs and it leaves run().  Inside
   the finally clause it leaves close() or the file removal and then run(). *)
KeyboardInterrupt ==
    /\ proc.pc = "run"
    /\ ~proc.interrupted
    /\ \/ /\ pc = "login"
          /\ retry.op = "login"
          /\ retry.status = "active"
          /\ \E r \in LoginResults(session, proc.config) :
                /\ r.prompt
                /\ session' = r.session
                /\ retry' = RetryStep(retry, r.out)
          /\ proc' = [proc EXCEPT !.interrupted = TRUE, !.swallowed = TRUE,
                                  !.intr_at = Len(calls)]
          /\ UNCHANGED <<pc, calls>>
       \/ /\ pc \in TryPcs \cup {"start"}
          /\ retry' = IF retry.status = "active"
                       THEN [retry EXCEPT !.status = "raised",
                                          !.error = "KeyboardInterrupt"]
                       ELSE retry
          /\ proc' = [proc EXCEPT !.interrupted = TRUE,
                                  !.intr_at = Len(calls),
                                  !.run_raised = "KeyboardInterrupt"]
          /\ pc' = "finally"
          /\ UNCHANGED <<session, calls>>
       \/ /\ pc = "finally"
          /\ calls' = Append(calls, "close")
          /\ session' \in {session} \cup {r.session : r \in CloseResults(session)}
          /\ proc' = [proc EXCEPT !.interrupted = TRUE,
                                  !.intr_at = Len(calls),
                                  !.run_raised = "KeyboardInterrupt"]
          /\ pc' = "done"
          /\ retry' = retry
    /\ UNCHANGED <<plan, unit, parlay, facade, balance, has_blocking_wagers,
                   bet_placed, screenshot_path, final_balance, exc,
                   slip_payout, sent, reads, files>>

(* main, lines 140-146: run() is over: a KeyboardInterrupt it let through
   gives sys.exit(0), any other exception sys.exit(1), and after a normal
   return the interpreter exits with 0. *)
MainExit ==
    /\ proc.pc = "run"
    /\ pc = "done"
    /\ proc' = [proc EXCEPT
                  !.pc = "exited",
                  !.exit_code = IF proc.run_raised \in {NoError, "KeyboardInterrupt"}
                                THEN 0 ELSE 1,
                  !.error = proc.run_raised]
    /\ UNCHANGED <<retry, plan, unit, parlay, session, facade, runVars>>

NextMain ==
    \/ MainConstruct
    \/ Next
    \/ KeyboardInterrupt
    \/ MainExit

SpecMain == InitMain /\ [][NextMain]_vars

----------------------------------------------------------------------------
(* SpecParlay: one attempt of execute_betting_strategy._execute_strategy *)

RECURSIVE SafeOfCard(_, _, _)
(* lines 224-238 for one game: the proposals from the i-th on that pass the
   filter; a proposal whose text does not convert abandons the rest of the
   game (`except ... continue`), keeping what was appended before. *)
SafeOfCard(card, g, i) ==
    IF i > Len(card) THEN <<>>
    ELSE LET d == _convert_odds_to_decimal(card[i]) IN
         IF ~d.ok THEN <<>>
         ELSE IF SafeOddsFilter(d)
         THEN <<[game |-> g, prop |-> i, odds |-> card[i]]>> \o SafeOfCard(card, g, i + 1)
         ELSE SafeOfCard(card, g, i + 1)

RECURSIVE SafeGames(_, _)
\* lines 222-238: safe_games over the games from the g-th on, in page order
SafeGames(games, g) ==
    IF g > Len(games) THEN <<>>
    ELSE SafeOfCard(games[g], g, 1) \o SafeGames(games, g + 1)

\* MUTANT of InBand: the ends of the band do not count
InBandStrict(p, lo, hi) == lo < p /\ p < hi

\* `if min_payout <= current_payout <= max_payout`
InBand(p, lo, hi) == lo <= p /\ p <= hi

InitParlay ==
    /\ \E n \in 0..MaxGames : \E games \in [1..n -> Cards] :
          parlay = [IdleParlay EXCEPT !.pc = "scan", !.games = games,
                                      !.min = min_payout_threshold,
                                      !.max = max_payout_threshold]
    /\ retry = IdleFrame
    /\ plan = <<>>
    /\ unit = IdleUnit
    /\ pc = "none"
    /\ balance = 0
    /\ has_blocking_wagers = FALSE
    /\ bet_placed = FALSE
    /\ screenshot_path = NonePath
    /\ final_balance = 0
    /\ exc = NoError
    /\ slip_payout = 0
    /\ calls = <<>>
    /\ sent = <<>>
    /\ reads = <<>>
    /\ files = {}
    /\ session = FreshSession
    /\ facade = IdleFacade
    /\ proc = IdleProc

\* lines 211-246: the games are listed and filtered; False when nothing is left
StrategyScan ==
    /\ parlay.pc = "scan"
    /\ \/ parlay' = [parlay EXCEPT !.pc = "done", !.result = "raised"]
       \/ IF parlay.games = <<>> \/ SafeGames(parlay.games, 1) = <<>>
          THEN parlay' = [parlay EXCEPT !.pc = "done", !.result = "False",
                             !.safe_games = SafeGames(parlay.games, 1)]
          ELSE parlay' = [parlay EXCEPT !.pc = "loop",
                             !.safe_games = SafeGames(parlay.games, 1),
                             !.current_payout = 100, !.idx = 1]
    /\ UNCHANGED <<retry, plan, unit, runVars, session, facade, proc>>

(* lines 248-264: one iteration of the loop: break when the payout reached
   max_payout, else click the proposal, read the slip payout, and return True
   when it is inside the band; the click or the read may raise. *)
StrategyAdd ==
    /\ parlay.pc = "loop"
    /\ parlay.idx <= Len(parlay.safe_games)
    /\ IF parlay.current_payout >= parlay.max
       THEN parlay' = [parlay EXCEPT !.pc = "done",
                          !.result = IF parlay.current_payout >= parlay.min
                                     THEN "True" ELSE "False"]
       ELSE \/ parlay' = [parlay EXCEPT !.pc = "done", !.result = "raised"]
            \/ parlay' = [parlay EXCEPT !.pc = "done", !.result = "raised",
                             !.clicked = Append(@, parlay.safe_games[parlay.idx]),
                             !.slip = Append(@, parlay.safe_games[parlay.idx])]
            \/ \E p \in SlipPayouts :
                 parlay' = [parlay EXCEPT
                     !.current_payout = p,
                     !.payouts = Append(@, p),
                     !.parlay_selections = Append(@, parlay.safe_games[parlay.idx]),
                     !.clicked = Append(@, parlay.safe_games[parlay.idx]),
                     !.slip = Append(@, parlay.safe_games[parlay.idx]),
                     !.idx = @ + 1,
                     !.pc = IF InBand(p, parlay.min, parlay.max) THEN "done" ELSE "loop",
                     !.result = IF InBand(p, parlay.min, parlay.max)
                                THEN "True" ELSE "none"]
    /\ UNCHANGED <<retry, plan, unit, runVars, session, facade, proc>>

\* lines 266-267: the candidates are exhausted
StrategyFinish ==
    /\ parlay.pc = "loop"
    /\ parlay.idx > Len(parlay.safe_games)
    /\ parlay' = [parlay EXCEPT !.pc = "done",
                     !.result = IF parlay.current_payout >= parlay.min
                                THEN "True" ELSE "False"]
    /\ UNCHANGED <<retry, plan, unit, runVars, session, facade, proc>>

NextParlay ==
    \/ StrategyScan
    \/ StrategyAdd
    \/ StrategyFinish

SpecParlay == InitParlay /\ [][NextParlay]_vars

----------------------------------------------------------------------------
(* SpecFacade: a client calls the operations of one FliffAutomator *)

\* the operations wrapped by _retry_operation
UIOps ==
    {"login", "get_balance", "check_open_wagers", "check_and_claim_rewards",
     "execute_betting_strategy", "place_bet"}

InitFacade ==
    /\ retry = IdleFrame
    /\ plan = <<>>
    /\ unit = IdleUnit
    /\ pc = "none"
    /\ balance = 0
    /\ has_blocking_wagers = FALSE
    /\ bet_placed = FALSE
    /\ screenshot_path = NonePath
    /\ final_balance = 0
    /\ exc = NoError
    /\ slip_payout = 0
    /\ calls = <<>>
    /\ sent = <<>>
    /\ reads = <<>>
    /\ files = {}
    /\ parlay = IdleParlay
    /\ session = FreshSession
    /\ facade = IdleFacade
    /\ proc = IdleProc

\* the client is between two calls and has calls left
FacadeReady == pc = "none" /\ retry.status # "active" /\ facade.ncalls < MaxCalls

\* a wrapped operation is called: _retry_operation starts
FacadeCall ==
    /\ FacadeReady
    /\ \E op \in UIOps :
          /\ retry' = NewFrame(op, DefaultMaxRetries, DefaultDelay)
          /\ facade' = [facade EXCEPT !.ncalls = @ + 1, !.op = op,
                                      !.page_at_call = session.page,
                                      !.setups_at_call = session.setups]
    /\ UNCHANGED <<plan, unit, runVars, parlay, session, proc>>

(* place_bet._place_bet: take_bet_screenshot, then the wager input, the
   submit control and the confirmation on the page. *)
_place_bet ==
    /\ \E shot \in ScreenshotResults("bet", session) :
          files' = IF shot.wrote THEN files \cup {shot.path} ELSE files
    /\ Attempt("place_bet", OnPage(session, {OkOut(1)} \cup Failures))
    /\ UNCHANGED <<plan, unit, pc, balance, has_blocking_wagers, bet_placed,
                   screenshot_path, final_balance, exc, slip_payout, calls, sent,
                   reads, parlay, session, facade, proc>>

\* close() is called
FacadeClose ==
    /\ FacadeReady
    /\ \E r \in CloseResults(session) :
          /\ session' = r.session
          /\ facade' = [facade EXCEPT
                 !.ncalls = @ + 1, !.op = "close", !.closes = @ + 1,
                 !.setups_at_close = session.setups,
                 !.torn_down = (session.page # 0),
                 !.last_close = [log |-> r.log, raised |-> r.raised,
                                 had_context |-> (session.context # 0),
                                 had_browser |-> (session.browser # 0)]]
    /\ UNCHANGED <<retry, plan, unit, runVars, parlay, proc>>

\* take_bet_screenshot() or take_error_screenshot() is called
FacadeScreenshot ==
    /\ FacadeReady
    /\ \E kind \in {"bet", "error"} : \E shot \in ScreenshotResults(kind, session) :
          /\ files' = IF shot.wrote THEN files \cup {shot.path} ELSE files
          /\ facade' = [facade EXCEPT
                 !.ncalls = @ + 1, !.op = "screenshot",
                 !.last_shot = [kind |-> kind, path |-> shot.path,
                                raised |-> shot.raised,
                                usable |-> PageUsable(session)]]
    /\ UNCHANGED <<retry, plan, unit, pc, balance, has_blocking_wagers, bet_placed,
                   screenshot_path, final_balance, exc, slip_payout, calls, sent,
                   reads, parlay, session, proc>>

NextFacade ==
    \/ FacadeCall
    \/ _login
    \/ _get_balance
    \/ _check_wagers
    \/ _claim_rewards
    \/ _execute_strategy
    \/ _place_bet
    \/ FacadeClose
    \/ FacadeScreenshot

SpecFacade == InitFacade /\ [][NextFacade]_vars

----------------------------------------------------------------------------
(* C1: for every max_retries N >= 1, _retry_operation calls the operation
   exactly k times when call k <= N is the first that succeeds and exactly N
   times when all N calls fail; it never calls it more often than that. *)

\* the first call among 1..n on which plan p succeeds, 0 when none does
FirstSuccess(p, n) ==
    IF \E k \in 1..n : p[k].ok
    THEN CHOOSE k \in 1..n : p[k].ok /\ \A j \in 1..(k - 1) : ~p[j].ok
    ELSE 0

ExpectedCalls(p, n) == IF FirstSuccess(p, n) # 0 THEN FirstSuccess(p, n) ELSE n

C1_CallCount ==
    /\ retry.calls <= ExpectedCalls(plan, retry.max)
    /\ retry.status = "active" => retry.calls < ExpectedCalls(plan, retry.max)
    /\ retry.status \in {"returned", "raised"} =>
          /\ retry.calls = ExpectedCalls(plan, retry.max)
          /\ (retry.status = "returned") = (FirstSuccess(plan, retry.max) # 0)

\* a unit that fails once then succeeds has been called exactly twice
C1_Witness ==
    /\ retry.status = "returned"
    /\ retry.max >= 3
    /\ ~plan[1].ok /\ plan[2].ok
    /\ retry.calls = 2

(* C2: _retry_operation returns the result of the first successful call at
   once (no further call, no sleep after it), and when the final attempt
   fails it raises exactly the error of that final attempt. *)
C2_ResultAndError ==
    /\ retry.status = "returned" =>
          LET k == FirstSuccess(plan, retry.max) IN
          /\ k # 0
          /\ retry.result = plan[k].val
          /\ retry.calls = k
          /\ Len(retry.sleeps) = k - 1
    /\ retry.status = "raised" =>
          /\ retry.error = plan[retry.max].err
          /\ retry.error \in Errors

\* the final attempt raised another error than the first attempt did
C2_Witness ==
    /\ retry.status = "raised"
    /\ retry.max >= 2
    /\ plan[1].err # plan[retry.max].err
    /\ retry.error = plan[retry.max].err

----------------------------------------------------------------------------
(* Helpers for the claims about run() *)

Count(seq, x) == Cardinality({i \in DOMAIN seq : seq[i] = x})
Positions(seq, x) == {i \in DOMAIN seq : seq[i] = x}
StatusNotes == SelectSeq(sent, LAMBDA n : n.kind = "status")
ErrorNotes == SelectSeq(sent, LAMBDA n : n.kind = "error")

(* C3: on every path of run() (goal met, insufficient balance, blocking
   wagers, bet path, no parlay, a step raising), automator.close() is invoked
   exactly once, and no automator operation is invoked after it. *)
C3_CloseOnceLast ==
    /\ Count(calls, "close") <= 1
    /\ \A i \in Positions(calls, "close") :
          \A j \in DOMAIN calls : j > i => calls[j] \notin AutomatorOps
    /\ pc = "done" => Count(calls, "close") = 1 /\ calls[Len(calls)] = "close"
    /\ pc \notin {"done", "none"} => Count(calls, "close") = 0

\* a run in which login failed on all its attempts ended with one close()
C3_Witness ==
    /\ pc = "done"
    /\ retry.op = "login" /\ retry.status = "raised"
    /\ Count(calls, "close") = 1

(* C4: whenever a step of the main sequence of run() raises, the driver calls
   take_error_screenshot exactly once, then send_error_notification exactly
   once with the exception's message and the returned screenshot path, and
   then close() exactly once. *)
C4_ErrorPath ==
    (pc = "done" /\ Raised) =>
        /\ Count(calls, "take_error_screenshot") = 1
        /\ Count(calls, "send_error_notification") = 1
        /\ Count(calls, "close") = 1
        /\ \A i \in Positions(calls, "take_error_screenshot") :
           \A j \in Positions(calls, "send_error_notification") :
           \A k \in Positions(calls, "close") : i < j /\ j < k
        /\ Len(ErrorNotes) = 1
        /\ ErrorNotes[1].text = RaisedError
        /\ ErrorNotes[1].path = screenshot_path
        /\ screenshot_path \in {ErrorPath, ""}

\* the balance read raised and the error screenshot was captured
C4_Witness ==
    /\ pc = "done"
    /\ retry.op = "get_balance" /\ retry.status = "raised"
    /\ reads = <<>>
    /\ ErrorNotes = <<ErrorNote(retry.error, ErrorPath)>>

(* C5: when the first balance read is >= goal_balance, the run sends the
   success notification with that balance, calls disable_workflow exactly
   once, calls get_balance exactly once and never calls check_open_wagers,
   check_and_claim_rewards or execute_betting_strategy. *)
C5_GoalAlreadyMet ==
    (pc = "done" /\ reads # <<>> /\ reads[1].val >= goal_balance) =>
        /\ sent = <<StatusNote(StartedText, 0), SuccessNote(reads[1].val)>>
        /\ Count(calls, "disable_workflow") = 1
        /\ Count(calls, "get_balance") = 1
        /\ Count(calls, "check_open_wagers") = 0
        /\ Count(calls, "check_and_claim_rewards") = 0
        /\ Count(calls, "execute_betting_strategy") = 0

\* the first read is exactly the goal
C5_Witness ==
    /\ pc = "done"
    /\ reads # <<>> /\ reads[1].val = goal_balance
    /\ Count(calls, "disable_workflow") = 1

(* C6: in any run in which the initial balance read or the re-read after
   claiming rewards returns a value >= goal_balance, disable_workflow is
   called in that run and execute_betting_strategy is not called after that
   read. *)
C6_GoalDisablesTrigger ==
    pc = "done" =>
        \A i \in DOMAIN reads :
            (reads[i].at \in {"initial", "after_claim"}
                /\ reads[i].val >= goal_balance) =>
                /\ Count(calls, "disable_workflow") >= 1
                /\ \A j \in Positions(calls, "execute_betting_strategy") :
                      j <= reads[i].ncalls

(* C7: a cycle runs login, balance read, conditional reward claim,
   conditional parlay construction, conditional bet placement, screenshot,
   notification in this order: the bet-slip screenshot of the driver and the
   bet confirmation come only after place_bet has been invoked in the run. *)
C7_BetPlacedBeforeReport ==
    \A i \in DOMAIN calls :
        calls[i] \in {"take_bet_screenshot", "send_bet_confirmation"} =>
            \E j \in 1..(i - 1) : calls[j] = "place_bet"

(* C8: when the balance is at least min_bet_threshold and below the goal,
   there are no blocking wagers, execute_betting_strategy returns true and
   the balance re-read returns, a bet confirmation is sent with wager amount
   equal to the re-read balance and payout equal to the slip payout, and the
   driver took the bet-slip screenshot exactly once. *)
C8_BetConfirmationSent ==
    (pc = "done" /\ bet_placed /\ ~has_blocking_wagers
        /\ balance >= min_bet_threshold /\ balance < goal_balance
        /\ reads # <<>> /\ reads[Len(reads)].at = "final") =>
        /\ Count(calls, "take_bet_screenshot") = 1
        /\ \E i \in DOMAIN sent :
              sent[i] = BetNote(reads[Len(reads)].val, slip_payout, screenshot_path)

(* C9: when the first balance read is below min_bet_threshold, there are no
   blocking wagers and the re-read after claiming is still below
   min_bet_threshold, the run calls check_and_claim_rewards exactly once,
   sends exactly two status notifications (start, insufficient balance) and
   never calls execute_betting_strategy. *)
C9_StillInsufficient ==
    (pc = "done" /\ Len(reads) >= 2
        /\ reads[1].val < min_bet_threshold /\ ~has_blocking_wagers
        /\ reads[2].at = "after_claim" /\ reads[2].val < min_bet_threshold) =>
        /\ Count(calls, "check_and_claim_rewards") = 1
        /\ StatusNotes = <<StatusNote(StartedText, 0),
                           StatusNote(InsufficientText, reads[2].val)>>
        /\ Count(calls, "send_status_update") = 2
        /\ Count(calls, "execute_betting_strategy") = 0

\* balance 0.50, rewards claimed, balance then 1.79
C9_Witness ==
    /\ pc = "done"
    /\ Len(reads) = 2
    /\ reads[1].val = 50 /\ reads[2].at = "after_claim" /\ reads[2].val = 179
    /\ Count(calls, "check_and_claim_rewards") = 1

(* C10: in any run where check_open_wagers returned true, whatever the
   balance below the goal, neither check_and_claim_rewards nor
   execute_betting_strategy is called and no status update is sent after
   the initial "Bot started execution". *)
C10_BlockingWagersPause ==
    has_blocking_wagers =>
        /\ balance < goal_balance
        /\ Count(calls, "check_and_claim_rewards") = 0
        /\ Count(calls, "execute_betting_strategy") = 0
        /\ StatusNotes = <<StatusNote(StartedText, 0)>>
        /\ Count(calls, "send_status_update") = 1

\* a blocking wager with a balance that would otherwise allow betting
C10_Witness ==
    /\ pc = "done"
    /\ has_blocking_wagers
    /\ balance = 500
    /\ Count(calls, "check_open_wagers") = 1

----------------------------------------------------------------------------
(* Helpers for the claims about one attempt of execute_betting_strategy *)

\* the payout the loop compared before its k-th click
PayoutBefore(k) == IF k = 1 THEN 100 ELSE parlay.payouts[k - 1]
FinalPayout ==
    IF parlay.payouts = <<>> THEN 100 ELSE parlay.payouts[Len(parlay.payouts)]
\* p lies in the closed interval the caller asked for
WithinBand(p) == parlay.min <= p /\ p <= parlay.max
ParlayReturned == parlay.pc = "done" /\ parlay.result \in {"True", "False"}

(* C11: execute_betting_strategy only ever clicks proposals whose
   American-equivalent odds lie within [-250, +200]; a proposal displaying
   +500 or -400 is never added to the parlay. *)
C11_OnlySafeOddsClicked ==
    \A k \in DOMAIN parlay.clicked : WithinAmericanRange(parlay.clicked[k].odds)

(* C12: within one attempt, retained proposals are clicked in discovery
   order, each at most once; no proposal is clicked once the running payout
   is >= max_payout; the attempt returns true at the first addition after
   which the payout is inside [min_payout, max_payout]; otherwise it returns
   true exactly when the final payout is >= min_payout; with no games or no
   retained proposals it returns false without clicking. *)
C12_GreedyLoop ==
    /\ Len(parlay.clicked) <= Len(parlay.safe_games)
    /\ \A k \in DOMAIN parlay.clicked : parlay.clicked[k] = parlay.safe_games[k]
    /\ \A k \in DOMAIN parlay.clicked : \A j \in DOMAIN parlay.clicked :
          (parlay.clicked[k].game = parlay.clicked[j].game
              /\ parlay.clicked[k].prop = parlay.clicked[j].prop) => k = j
    /\ \A k \in DOMAIN parlay.clicked :
          /\ PayoutBefore(k) < parlay.max
          /\ ~WithinBand(PayoutBefore(k)) \/ k = 1
    /\ ParlayReturned =>
          /\ parlay.clicked = parlay.parlay_selections
          /\ Len(parlay.payouts) = Len(parlay.clicked)
          /\ IF \E k \in DOMAIN parlay.payouts :
                   WithinBand(parlay.payouts[k])
             THEN /\ parlay.result = "True"
                  /\ WithinBand(FinalPayout)
             ELSE /\ (parlay.result = "True") = (FinalPayout >= parlay.min)
                  /\ FinalPayout >= parlay.max
                        \/ Len(parlay.clicked) = Len(parlay.safe_games)
          /\ (parlay.games = <<>> \/ SafeGames(parlay.games, 1) = <<>>) =>
                parlay.result = "False" /\ parlay.clicked = <<>>

\* the second addition entered the band while a third candidate was left
C12_Witness ==
    /\ ParlayReturned
    /\ parlay.result = "True"
    /\ Len(parlay.safe_games) >= 3
    /\ Len(parlay.clicked) = 2
    /\ parlay.payouts[1] < parlay.min
    /\ parlay.payouts[2] = parlay.min

----------------------------------------------------------------------------
(* C14: for each UI operation of the facade, if no session exists when it is
   invoked, the browser session is opened (_setup_browser runs) before the
   operation's first page interaction, so the operation does not fail merely
   because no session was open. *)
C14_LazySessionOpen ==
    (facade.op \in UIOps /\ facade.page_at_call = 0 /\ retry.calls >= 1) =>
        /\ session.setups > facade.setups_at_call
        /\ ~(retry.status = "raised" /\ retry.error = "AttributeError")

(* C15: after close() has torn a session down, a subsequent login on the same
   FliffAutomator runs _setup_browser again instead of operating on the
   closed page. *)
C15_FreshSessionAfterClose ==
    (facade.op = "login" /\ retry.calls >= 1 /\ facade.closes >= 1
        /\ facade.torn_down) =>
        session.setups > facade.setups_at_close

(* C16: close() never raises; the context is released before the browser; the
   browser's close is attempted whether or not the context's close raised;
   a resource that was never created is skipped. *)
C16_CloseIndependent ==
    facade.closes >= 1 =>
        LET c == facade.last_close
            ctx == {i \in DOMAIN c.log : c.log[i].what = "context"}
            brw == {i \in DOMAIN c.log : c.log[i].what = "browser"}
        IN  /\ ~c.raised
            /\ Cardinality(ctx) = (IF c.had_context THEN 1 ELSE 0)
            /\ Cardinality(brw) = (IF c.had_browser THEN 1 ELSE 0)
            /\ \A i \in ctx : \A j \in brw : i < j

\* the context's close raised and the browser was closed all the same
C16_Witness ==
    /\ facade.closes >= 1
    /\ facade.last_close.log = <<[what |-> "context", how |-> "raised"],
                                 [what |-> "browser", how |-> "ok"]>>
    /\ Res("browser", session.browser) \notin session.open

(* C17: take_bet_screenshot and take_error_screenshot never raise; on a
   capture failure, also when no page exists, they return the empty string;
   on success they return the path of the file they wrote. *)
C17_ScreenshotNeverRaises ==
    facade.last_shot.kind # "none" =>
        LET t == facade.last_shot IN
        /\ ~t.raised
        /\ t.path \in {"", ShotPath(t.kind)}
        /\ ~t.usable => t.path = ""
        /\ t.path # "" => t.path \in files

\* an error screenshot asked of an automator that never opened a page
C17_Witness ==
    /\ facade.last_shot.kind = "error"
    /\ facade.last_shot.path = ""
    /\ session.page = 0
    /\ ~facade.last_shot.raised

----------------------------------------------------------------------------
(* C18  FliffBotOrchestrator.run never lets an Exception through to its
   caller: whatever the automator's operations, the screenshots, the
   notifier and close() did, nothing is recorded as leaving run(), and run()
   is over only after close() was called. *)
C18_RunNeverRaises ==
    /\ proc.run_raised = NoError
    /\ pc = "done" => calls # <<>> /\ calls[Len(calls)] = "close"

\* run() ended after an operation raised on all its attempts and close() failed to release the browser
C18_Witness ==
    /\ pc = "done"
    /\ Raised
    /\ Count(calls, "send_error_notification") = 1
    /\ \E n \in 1..session.launched : Res("browser", n) \in session.open

(* C19  When a required variable is missing, construction fails with an
   error and the process ends before any browser, control-plane or
   messaging action. *)
C19_FailFastAtConstruction ==
    (proc.pc # "main" /\ proc.config # RequiredConfig) =>
        /\ proc.pc = "exited"
        /\ proc.exit_code = 1
        /\ proc.error = "ValueError"
        /\ calls = <<>>
        /\ session.setups = 0

(* C20  A keyboard interrupt while run() executes ends the run: no call but
   close() follows it, and once the process has exited close() was called
   and the exit code is 0; a process that exits with 1 met another error. *)
C20_InterruptEndsRun ==
    /\ proc.interrupted =>
          /\ \A i \in DOMAIN calls : i > proc.intr_at => calls[i] = "close"
          /\ proc.pc = "exited" =>
                /\ proc.exit_code = 0
                /\ Count(calls, "close") >= 1
    /\ (proc.pc = "exited" /\ proc.exit_code = 1) =>
          proc.error \notin {NoError, "KeyboardInterrupt"}

----------------------------------------------------------------------------
(* C21  After a run in which take_bet_screenshot wrote and returned the
   bet-slip file, that file is gone when run() is over; close() was called
   exactly once, whether or not a file was there to remove. *)
C21_BetScreenshotRemoved ==
    pc = "done" =>
        /\ BetSlipPath \notin files
        /\ Count(calls, "close") = 1

----------------------------------------------------------------------------
(* SpecDisable: one call of GitHubAPIManager.disable_workflow *)

\* bound on the number of workflows the listing returns
MaxWorkflows == 2

workflow_filename == "main.yml"
TargetPath == ".github/workflows/main.yml"

(* What the listing can hold: a workflow has a path (or none) and an id
   (0: the entry has no 'id' key). *)
Workflows ==
    [path : {TargetPath, ".github/workflows/ci.yml", "none"}, id : {0, 7}]

RECURSIVE SeqsUpTo(_, _)
\* the sequences over S of length at most n
SeqsUpTo(S, n) ==
    IF n = 0 THEN {<<>>}
    ELSE LET shorter == SeqsUpTo(S, n - 1)
         IN  shorter \cup {Append(q, x) : q \in shorter, x \in S}

\* what requests.get / requests.put and raise_for_status can do
HttpOutcomes == {"ok", "ConnectionError", "HTTPError"}

\* MUTANT of IsTarget: any workflow of the listing is taken
IsTargetAny(wf) == TRUE

\* line 44: `workflow.get('path') == f'.github/workflows/{self.workflow_filename}'`
IsTarget(wf) == wf.path = TargetPath

\* lines 43-46: the index of the first workflow of the listing that matches, 0 when none
FirstTarget(wfs) ==
    IF \E i \in DOMAIN wfs : IsTarget(wfs[i])
    THEN CHOOSE i \in DOMAIN wfs :
            IsTarget(wfs[i]) /\ \A j \in 1..(i - 1) : ~IsTarget(wfs[j])
    ELSE 0

InitDisable ==
    /\ retry = IdleFrame
    /\ plan = <<>>
    /\ pc = "none"
    /\ balance = 0
    /\ has_blocking_wagers = FALSE
    /\ bet_placed = FALSE
    /\ screenshot_path = NonePath
    /\ final_balance = 0
    /\ exc = NoError
    /\ slip_payout = 0
    /\ calls = <<>>
    /\ sent = <<>>
    /\ reads = <<>>
    /\ files = {}
    /\ parlay = IdleParlay
    /\ session = FreshSession
    /\ facade = IdleFacade
    /\ proc = IdleProc
    /\ \E listing \in HttpOutcomes \cup {"bad_json"},
          wfs \in SeqsUpTo(Workflows, MaxWorkflows),
          put \in HttpOutcomes :
          unit = [IdleUnit EXCEPT
                     !.fn = "disable_workflow", !.pc = "list",
                     !.env = [listing |-> listing, workflows |-> wfs,
                              put |-> put, target |-> 0]]

(* lines 30-40: GET the listing; a failed request, an error status or a body
   that is not JSON ends the call with False. *)
DisableList ==
    /\ unit.fn = "disable_workflow"
    /\ unit.pc = "list"
    /\ unit' = [unit EXCEPT
                  !.log = Append(@, [method |-> "GET", id |-> 0]),
                  !.pc = IF unit.env.listing = "ok" THEN "find" ELSE "done",
                  !.result = IF unit.env.listing = "ok" THEN "none" ELSE "False"]
    /\ UNCHANGED <<retry, plan, runVars, parlay, session, facade, proc>>

(* lines 41-52: the target is looked up; without one the call returns False,
   and so does the KeyError of a target without an id. *)
DisableFind ==
    /\ unit.fn = "disable_workflow"
    /\ unit.pc = "find"
    /\ LET t == FirstTarget(unit.env.workflows) IN
       IF t = 0 \/ unit.env.workflows[t].id = 0
       THEN unit' = [unit EXCEPT !.pc = "done", !.result = "False"]
       ELSE unit' = [unit EXCEPT !.pc = "put", !.env.target = t]
    /\ UNCHANGED <<retry, plan, runVars, parlay, session, facade, proc>>

\* lines 54-60: PUT .../workflows/{workflow_id}/disable
DisablePut ==
    /\ unit.fn = "disable_workflow"
    /\ unit.pc = "put"
    /\ unit' = [unit EXCEPT
                  !.log = Append(@, [method |-> "PUT",
                                     id |-> unit.env.workflows[unit.env.target].id]),
                  !.pc = "done",
                  !.result = IF unit.env.put = "ok" THEN "True" ELSE "False"]
    /\ UNCHANGED <<retry, plan, runVars, parlay, session, facade, proc>>

NextDisable ==
    \/ DisableList
    \/ DisableFind
    \/ DisablePut

SpecDisable == InitDisable /\ [][NextDisable]_vars

\* the PUT requests of the call so far
Puts == SelectSeq(unit.log, LAMBDA q : q.method = "PUT")

(* C22  disable_workflow never raises; it returns True only if the listing
   succeeded, a workflow with path .github/workflows/main.yml was listed and
   the PUT succeeded; it sends at most one PUT, and none when the listing
   failed or the target is not listed. *)
C22_DisableWorkflow ==
    LET listed == \E i \in DOMAIN unit.env.workflows :
                     unit.env.workflows[i].path = TargetPath
    IN  /\ ~unit.raised
        /\ Len(Puts) <= 1
        /\ (unit.env.listing # "ok" \/ ~listed) => Puts = <<>>
        /\ unit.pc = "done" => unit.result \in {"True", "False"}
        /\ unit.result = "True" =>
              /\ unit.env.listing = "ok"
              /\ listed
              /\ unit.env.put = "ok"
              /\ Len(Puts) = 1

\* the target came second in the listing and was disabled
C22_Witness ==
    /\ unit.pc = "done"
    /\ unit.result = "True"
    /\ Len(unit.env.workflows) = 2
    /\ unit.env.workflows[1].path # TargetPath
    /\ Puts = <<[method |-> "PUT", id |-> 7]>>

----------------------------------------------------------------------------
(* SpecNotify: one call of a send operation of TelegramNotifier *)

NotifyOps ==
    {"send_message", "send_photo", "send_status_update",
     "send_success_notification", "send_bet_confirmation",
     "send_error_notification"}

\* what self.bot.send_message / self.bot.send_photo can do
BotOutcomes == {"ok", "TelegramError", "Exception"}

\* the operations that go through send_message first
SendsText(fn) == fn # "send_photo"

\* MUTANT of AttachPhoto: the photo follows whatever became of the text
AttachPhotoAlways(fn, path, success) ==
    \/ fn = "send_bet_confirmation"
    \/ fn \in {"send_success_notification", "send_error_notification"} /\ Truthy(path)

(* lines 101-102 and 149-150: `if screenshot_path and success`; lines
   126-127: `if success`; send_message and send_status_update send no photo. *)
AttachPhoto(fn, path, success) ==
    \/ fn = "send_bet_confirmation" /\ success
    \/ /\ fn \in {"send_success_notification", "send_error_notification"}
       /\ Truthy(path)
       /\ success

InitNotify ==
    /\ retry = IdleFrame
    /\ plan = <<>>
    /\ pc = "none"
    /\ balance = 0
    /\ has_blocking_wagers = FALSE
    /\ bet_placed = FALSE
    /\ screenshot_path = NonePath
    /\ final_balance = 0
    /\ exc = NoError
    /\ slip_payout = 0
    /\ calls = <<>>
    /\ sent = <<>>
    /\ reads = <<>>
    /\ files = {}
    /\ parlay = IdleParlay
    /\ session = FreshSession
    /\ facade = IdleFacade
    /\ proc = IdleProc
    /\ \E fn \in NotifyOps,
          path \in {NonePath, "", BetSlipPath, ErrorPath},
          text \in BotOutcomes, photo \in BotOutcomes, on_disk \in BOOLEAN :
          /\ fn \in {"send_message", "send_status_update"} => path = NonePath
          /\ unit = [IdleUnit EXCEPT
                        !.fn = fn,
                        !.pc = IF SendsText(fn) THEN "text" ELSE "photo",
                        !.input = [path |-> path],
                        !.env = [text |-> text, photo |-> photo,
                                 on_disk |-> on_disk /\ Truthy(path)]]

(* send_message, lines 35-48, and what its caller does with the value:
   True after the bot call returned, False after any exception of it. *)
NotifyText ==
    /\ unit.fn \in NotifyOps
    /\ unit.pc = "text"
    /\ LET success == unit.env.text = "ok" IN
       unit' = [unit EXCEPT
                  !.log = Append(@, "bot.send_message"),
                  !.pc = IF AttachPhoto(unit.fn, unit.input.path, success)
                         THEN "photo" ELSE "done",
                  !.result = IF AttachPhoto(unit.fn, unit.input.path, success)
                             THEN "none"
                             ELSE IF success THEN "True" ELSE "False"]
    /\ UNCHANGED <<retry, plan, runVars, parlay, session, facade, proc>>

(* send_photo, lines 61-80: False when the file is not there (or the path is
   no path at all), else the bot call, False after any exception of it. *)
NotifyPhoto ==
    /\ unit.fn \in NotifyOps
    /\ unit.pc = "photo"
    /\ IF ~unit.env.on_disk
       THEN unit' = [unit EXCEPT !.log = Append(@, "send_photo"),
                                 !.pc = "done", !.result = "False"]
       ELSE unit' = [unit EXCEPT
                       !.log = @ \o <<"send_photo", "bot.send_photo">>,
                       !.pc = "done",
                       !.result = IF unit.env.photo = "ok" THEN "True" ELSE "False"]
    /\ UNCHANGED <<retry, plan, runVars, parlay, session, facade, proc>>

NextNotify ==
    \/ NotifyText
    \/ NotifyPhoto

SpecNotify == InitNotify /\ [][NextNotify]_vars

(* C23  The send operations never raise and return False on any delivery
   failure; a photo is attempted only after the text went out, for success
   and error notifications only with a non-empty screenshot path, and True
   is returned only if every attempted send succeeded. *)
C23_NotifierSends ==
    LET texted == Count(unit.log, "bot.send_message") >= 1
        photo_called == Count(unit.log, "send_photo") >= 1
        photo_sent == Count(unit.log, "bot.send_photo") >= 1
    IN  /\ ~unit.raised
        /\ unit.pc = "done" => unit.result \in {"True", "False"}
        /\ (photo_called /\ unit.fn # "send_photo") =>
               /\ unit.log[1] = "bot.send_message"
               /\ unit.env.text = "ok"
               /\ unit.fn \notin {"send_message", "send_status_update"}
        /\ (photo_called /\ unit.fn \in {"send_success_notification",
                                          "send_error_notification"}) =>
               unit.input.path \notin {NonePath, ""}
        /\ unit.result = "True" =>
               /\ texted => unit.env.text = "ok"
               /\ photo_called => photo_sent /\ unit.env.photo = "ok"
        /\ (unit.pc = "done" /\ texted /\ unit.env.text # "ok") =>
               unit.result = "False"
        /\ (unit.pc = "done" /\ photo_sent /\ unit.env.photo # "ok") =>
               unit.result = "False"

\* an error notification whose text went out and whose photo delivery failed
C23_Witness ==
    /\ unit.fn = "send_error_notification"
    /\ unit.pc = "done"
    /\ unit.log = <<"bot.send_message", "send_photo", "bot.send_photo">>
    /\ unit.env.photo = "TelegramError"
    /\ unit.result = "False"

----------------------------------------------------------------------------
(* SpecWagers: one attempt of check_open_wagers._check_wagers on an activity
   page that loaded *)

\* bound on the number of bet slips the activity page shows
MaxSlips == 2

(* The text of a slip as the pieces the code can tell apart: words (with
   their lower-case form) and maximal runs of digits and commas; a run is
   the number left when the commas are removed, or nothing but commas. *)
Word(text, lower) == [kind |-> "word", text |-> text, lower |-> lower, val |-> 0, empty |-> FALSE]
Num(v) == [kind |-> "num", text |-> "", lower |-> "", val |-> v, empty |-> FALSE]
Commas == [kind |-> "num", text |-> ",", lower |-> ",", val |-> 0, empty |-> TRUE]

\* "<label> $W.CC" for an amount in cents, e.g. "Potential payout: $50.00"
Amount(cents) == <<Word("$", "$"), Num(cents \div 100), Word(".", "."), Num(cents % 100)>>

(* Slips: tokens are the text, `payout` the amount the slip displays as its
   payout in cents (0: it displays none). *)
Slip(tokens, payout) == [tokens |-> tokens, payout |-> payout]

SlipTexts ==
    {Slip(<<Word("Potential", "potential"), Word("payout:", "payout:")>> \o Amount(c), c)
        : c \in {150, 180, 190, 200, 5000}}
    \cup {Slip(<<Word("PAYOUT", "payout")>> \o Amount(100000), 100000),
          Slip(<<Word("Stake:", "stake:")>> \o Amount(5000), 0),
          Slip(<<Word("Parlay", "parlay"), Commas, Word("payout", "payout")>>
                  \o Amount(150), 150),
          Slip(<<Num(3), Word("legs", "legs"), Word("Payout", "payout")>>
                  \o Amount(150), 150)}

\* line 159: `'payout' in payout_text.lower()`
MentionsPayout(slip) ==
    \E i \in DOMAIN slip.tokens :
        slip.tokens[i].kind = "word"
            /\ slip.tokens[i].lower \in {"payout", "payout:"}

\* line 161: re.search(r'[\d,]+', payout_text): the first run, 0 when there is none
PayoutMatch(slip) ==
    IF \E i \in DOMAIN slip.tokens : slip.tokens[i].kind = "num"
    THEN CHOOSE i \in DOMAIN slip.tokens :
            /\ slip.tokens[i].kind = "num"
            /\ \A j \in 1..(i - 1) : slip.tokens[j].kind # "num"
    ELSE 0

(* lines 157-166 for one slip: "skip" when the loop goes on, "True" when the
   slip blocks, "raised" when float() is handed the empty string. *)
SlipVerdict(slip) ==
    IF ~MentionsPayout(slip) \/ PayoutMatch(slip) = 0 THEN "skip"
    ELSE LET m == slip.tokens[PayoutMatch(slip)] IN
         IF m.empty THEN "raised"
         ELSE IF m.val * 100 > min_bet_threshold THEN "True" ELSE "skip"

InitWagers ==
    /\ retry = IdleFrame
    /\ plan = <<>>
    /\ pc = "none"
    /\ balance = 0
    /\ has_blocking_wagers = FALSE
    /\ bet_placed = FALSE
    /\ screenshot_path = NonePath
    /\ final_balance = 0
    /\ exc = NoError
    /\ slip_payout = 0
    /\ calls = <<>>
    /\ sent = <<>>
    /\ reads = <<>>
    /\ files = {}
    /\ parlay = IdleParlay
    /\ session = FreshSession
    /\ facade = IdleFacade
    /\ proc = IdleProc
    /\ \E slips \in SeqsUpTo(SlipTexts, MaxSlips) :
          unit = [IdleUnit EXCEPT !.fn = "check_open_wagers", !.pc = "query",
                                  !.env = [slips |-> slips, idx |-> 1]]

\* lines 146-154: the activity page is opened and the slips are collected
WagersQuery ==
    /\ unit.fn = "check_open_wagers"
    /\ unit.pc = "query"
    /\ unit' = [unit EXCEPT
                  !.log = @ \o <<"click", "query_selector_all">>,
                  !.pc = IF unit.env.slips = <<>> THEN "done" ELSE "loop",
                  !.result = IF unit.env.slips = <<>> THEN "False" ELSE "none"]
    /\ UNCHANGED <<retry, plan, runVars, parlay, session, facade, proc>>

\* lines 157-166: one iteration of `for slip in bet_slips`
WagersSlip ==
    /\ unit.fn = "check_open_wagers"
    /\ unit.pc = "loop"
    /\ unit.env.idx <= Len(unit.env.slips)
    /\ LET v == SlipVerdict(unit.env.slips[unit.env.idx]) IN
       unit' = [unit EXCEPT
                  !.log = Append(@, "text_content"),
                  !.env.idx = IF v = "skip" THEN @ + 1 ELSE @,
                  !.pc = IF v = "skip" THEN "loop" ELSE "done",
                  !.result = IF v = "True" THEN "True" ELSE "none",
                  !.raised = v = "raised"]
    /\ UNCHANGED <<retry, plan, runVars, parlay, session, facade, proc>>

\* lines 168-169: no slip blocked
WagersNone ==
    /\ unit.fn = "check_open_wagers"
    /\ unit.pc = "loop"
    /\ unit.env.idx > Len(unit.env.slips)
    /\ unit' = [unit EXCEPT !.pc = "done", !.result = "False"]
    /\ UNCHANGED <<retry, plan, runVars, parlay, session, facade, proc>>

NextWagers ==
    \/ WagersQuery
    \/ WagersSlip
    \/ WagersNone

SpecWagers == InitWagers /\ [][NextWagers]_vars

(* C24  check_open_wagers returns True exactly when some slip that mentions
   a payout displays a payout above 1.80 (so $1.90 blocks), and returns
   False without raising otherwise. *)
C24_BlockingPayout ==
    (unit.fn = "check_open_wagers" /\ unit.pc = "done") =>
        LET blocking == \E i \in DOMAIN unit.env.slips :
                            unit.env.slips[i].payout > min_bet_threshold
        IN  /\ ~unit.raised
            /\ unit.result = (IF blocking THEN "True" ELSE "False")

----------------------------------------------------------------------------
(* SpecBalance: get_balance on a page that shows some balance text on every
   attempt *)

\* bound on the length of the generated balance texts
MaxText == 3

\* texts are sequences of characters
Dollars550 == <<"$", "5", ".", "5", "0">>
Dollars1000_50 == <<"$", "1", ",", "0", "0", "0", ".", "5", "0">>
Dollars10 == <<"$", "1", "0">>
MinusDollars550 == <<"-", "$", "5", ".", "5", "0">>

\* what the balance element may show: the examples and every short text
BalanceTexts ==
    {Dollars550, Dollars1000_50, Dollars10, MinusDollars550}
        \cup SeqsUpTo({"$", ",", "-", ".", "1", "5"}, MaxText)

IsDigit(c) == c \in {"0", "1", "5"}
DigitVal(c) == IF c = "0" THEN 0 ELSE IF c = "1" THEN 1 ELSE 5

RECURSIVE NumOf(_)
\* the integer written by a sequence of digits (0 for none)
NumOf(ds) ==
    IF ds = <<>> THEN 0
    ELSE 10 * NumOf(SubSeq(ds, 1, Len(ds) - 1)) + DigitVal(ds[Len(ds)])

\* line 133: re.sub(r'[,$]', '', balance_text)
balance_clean(text) == SelectSeq(text, LAMBDA c : c \notin {",", "$"})

(* line 134: float(balance_clean): an optional minus sign, then digits with
   at most one point and at least one digit; anything else is a ValueError.
   The value is (-1)^neg * num / den. *)
ParseFloat(cl) ==
    LET neg == cl # <<>> /\ cl[1] = "-"
        body == IF neg THEN Tail(cl) ELSE cl
        points == {i \in DOMAIN body : body[i] = "."}
        digits == SelectSeq(body, IsDigit)
        ok == /\ \A i \in DOMAIN body : IsDigit(body[i]) \/ body[i] = "."
              /\ Cardinality(points) <= 1
              /\ digits # <<>>
        fraclen == IF points = {} THEN 0
                   ELSE Len(body) - (CHOOSE i \in points : TRUE)
    IN  IF ok
        THEN OkOut([neg |-> neg, num |-> NumOf(digits), den |-> 10 ^ fraclen])
        ELSE ErrOut("ValueError")

InitBalance ==
    /\ retry = NewFrame("get_balance", DefaultMaxRetries, DefaultDelay)
    /\ plan = <<>>
    /\ pc = "none"
    /\ balance = 0
    /\ has_blocking_wagers = FALSE
    /\ bet_placed = FALSE
    /\ screenshot_path = NonePath
    /\ final_balance = 0
    /\ exc = NoError
    /\ slip_payout = 0
    /\ calls = <<>>
    /\ sent = <<>>
    /\ reads = <<>>
    /\ files = {}
    /\ parlay = IdleParlay
    /\ session = FreshSession
    /\ facade = IdleFacade
    /\ proc = IdleProc
    /\ unit = [IdleUnit EXCEPT !.fn = "get_balance", !.pc = "attempt"]

(* lines 119-137: one attempt of _get_balance on a page whose balance
   element shows `text`: the value is returned or float() raises, which
   _retry_operation treats like any failure. *)
BalanceAttempt ==
    /\ unit.fn = "get_balance"
    /\ retry.op = "get_balance"
    /\ retry.status = "active"
    /\ \E text \in BalanceTexts :
          LET out == ParseFloat(balance_clean(text)) IN
          /\ retry' = RetryStep(retry, out)
          /\ unit' = [unit EXCEPT !.input = text,
                                  !.log = Append(@, out.ok),
                                  !.pc = IF RetryStep(retry, out).status = "active"
                                         THEN "attempt" ELSE "done"]
    /\ UNCHANGED <<plan, runVars, parlay, session, facade, proc>>

NextBalance == BalanceAttempt

SpecBalance == InitBalance /\ [][NextBalance]_vars

(* C25  get_balance returns the number written by the text once commas and
   dollar signs are removed ("$5.50" gives 5.50, "$1,000.50" gives 1000.50,
   "$10" gives 10), the amount returned is never negative, and a text that
   does not parse fails the attempt, which is retried. *)
C25_BalanceParsed ==
    unit.fn = "get_balance" =>
        /\ retry.status = "returned" =>
              /\ ~retry.result.neg \/ retry.result.num = 0
              /\ unit.input = Dollars550 =>
                    retry.result = [neg |-> FALSE, num |-> 550, den |-> 100]
              /\ unit.input = Dollars1000_50 =>
                    retry.result = [neg |-> FALSE, num |-> 100050, den |-> 100]
              /\ unit.input = Dollars10 =>
                    retry.result = [neg |-> FALSE, num |-> 10, den |-> 1]
              /\ \E i \in DOMAIN unit.input : IsDigit(unit.input[i])
        /\ \A i \in DOMAIN unit.log :
              ~unit.log[i] => (i = retry.max \/ i < Len(unit.log)
                                 \/ retry.status = "active")

----------------------------------------------------------------------------
(* SpecOdds: one call of _convert_odds_to_decimal *)

\* bound on the size of the quotes, in steps of 25.00
MaxQuarter == 20

\* the numbers a quote can carry, in hundredths (150.00 is 15000, 0.50 is 50)
OddsValues == {0, 50, 99, 100, 101, 150, 250} \cup {2500 * k : k \in 1..MaxQuarter}

\* "+n", "-n" and bare "n" for every such number, and a text that is no number
Quotes == {Quote(sign, h) : sign \in {"+", "-", ""}, h \in OddsValues} \cup {NotANumber}

InitOdds ==
    /\ retry = IdleFrame
    /\ plan = <<>>
    /\ pc = "none"
    /\ balance = 0
    /\ has_blocking_wagers = FALSE
    /\ bet_placed = FALSE
    /\ screenshot_path = NonePath
    /\ final_balance = 0
    /\ exc = NoError
    /\ slip_payout = 0
    /\ calls = <<>>
    /\ sent = <<>>
    /\ reads = <<>>
    /\ files = {}
    /\ parlay = IdleParlay
    /\ session = FreshSession
    /\ facade = IdleFacade
    /\ proc = IdleProc
    /\ \E q \in Quotes :
          unit = [IdleUnit EXCEPT !.fn = "_convert_odds_to_decimal",
                                  !.pc = "call", !.input = q]

\* lines 271-280
OddsConvert ==
    /\ unit.fn = "_convert_odds_to_decimal"
    /\ unit.pc = "call"
    /\ unit' = [unit EXCEPT
                  !.pc = "done",
                  !.result = _convert_odds_to_decimal(unit.input),
                  !.raised = ~_convert_odds_to_decimal(unit.input).ok]
    /\ UNCHANGED <<retry, plan, runVars, parlay, session, facade, proc>>

NextOdds == OddsConvert

SpecOdds == InitOdds /\ [][NextOdds]_vars

(* C26  For every quote it accepts, _convert_odds_to_decimal gives (o+100)/100
   for +o, (100+o)/o for -o and the value itself for bare decimal text (as
   fractions num/den over hundredths), and the multiplier is strictly
   greater than 1.0. *)
C26_DecimalAboveOne ==
    (unit.fn = "_convert_odds_to_decimal" /\ unit.pc = "done" /\ ~unit.raised) =>
        LET q == unit.input
            d == unit.result
        IN  /\ q.sign = "+" => d.num = q.h + 10000 /\ d.den = 10000
            /\ q.sign = "-" => d.num = 10000 + q.h /\ d.den = q.h
            /\ q.sign = "" => d.num = q.h /\ d.den = 100
            /\ d.num > d.den

----------------------------------------------------------------------------
RECURSIVE SeqSum(_)
SeqSum(q) == IF q = <<>> THEN 0 ELSE q[1] + SeqSum(Tail(q))

(* C27  With base delay d and N attempts, _retry_operation sleeps d*2^(i-1)
   seconds after the i-th failed attempt for i < N, and not after a success
   or after the last failed attempt: every call but the last one made was
   followed by one sleep, so an always-failing call with the defaults
   sleeps 2s and 4s, 6s in all. *)
C27_BackoffSleeps ==
    retry.op = "operation" =>
        /\ \A i \in DOMAIN retry.sleeps :
              /\ retry.sleeps[i] = retry.delay * 2 ^ (i - 1)
              /\ i < retry.max
              /\ ~plan[i].ok
        /\ Len(retry.sleeps) =
              (IF retry.status = "active" THEN retry.calls ELSE retry.calls - 1)
        /\ (retry.status = "raised" /\ retry.max = DefaultMaxRetries
               /\ retry.delay = DefaultDelay) =>
              retry.sleeps = <<2, 4>> /\ SeqSum(retry.sleeps) = 6

\* a call with four attempts failed throughout and slept three times
C27_Witness ==
    /\ retry.op = "operation"
    /\ retry.status = "raised"
    /\ retry.max = 4
    /\ retry.delay = DefaultDelay
    /\ retry.sleeps = <<2, 4, 8>>

----------------------------------------------------------------------------
\* the balance reads run() had received when it made its k-th call
ReadsBefore(k) == SelectSeq(reads, LAMBDA r : r.ncalls < k)

(* C28  In every run execute_betting_strategy is called at most once, with
   min_payout 50.00 and max_payout 100.00, and only when the latest balance
   read is at least 1.80, the first read was below the goal and
   check_open_wagers returned False; check_and_claim_rewards is called at
   most once, and only when the first read was below 1.80 and
   check_open_wagers returned False. *)
C28_CallPreconditions ==
    /\ Count(calls, "execute_betting_strategy") <= 1
    /\ Count(calls, "check_and_claim_rewards") <= 1
    /\ \A k \in Positions(calls, "execute_betting_strategy") :
          LET seen == ReadsBefore(k) IN
          /\ parlay.min = 5000 /\ parlay.max = 10000
          /\ seen # <<>>
          /\ seen[Len(seen)].val >= 180
          /\ seen[1].val < 1000
          /\ \E j \in 1..(k - 1) : calls[j] = "check_open_wagers"
          /\ ~has_blocking_wagers
    /\ \A k \in Positions(calls, "check_and_claim_rewards") :
          LET seen == ReadsBefore(k) IN
          /\ Len(seen) = 1
          /\ seen[1].val < 180
          /\ \E j \in 1..(k - 1) : calls[j] = "check_open_wagers"
          /\ ~has_blocking_wagers
    /\ Count(calls, "execute_betting_strategy") = 0 => parlay.min = 0

\* rewards were claimed, the balance rose to 1.80 and the strategy was called
C28_Witness ==
    /\ Count(calls, "check_and_claim_rewards") = 1
    /\ Count(calls, "execute_betting_strategy") = 1
    /\ Len(reads) >= 2
    /\ reads[1].val = 179
    /\ reads[2].val = 180
    /\ pc = "done"

----------------------------------------------------------------------------
(* SpecLogin: login on a page that may behave differently on every attempt *)

(* What the outside does during one attempt: whether _setup_browser, goto,
   the wait for the login control, the two fills, the click and the final
   wait succeed, and what becomes of the location prompt within its 5s. *)
LoginPages ==
    [setup : BOOLEAN, goto : BOOLEAN, control : BOOLEAN, fields : BOOLEAN,
     click : BOOLEAN, idle : BOOLEAN,
     prompt : {"absent", "present", "click_fails"}]

\* MUTANT of PromptError: the wait for the prompt has no try block
PromptErrorUnguarded(prompt) ==
    IF prompt = "absent" THEN "TimeoutError"
    ELSE IF prompt = "click_fails" THEN "Error"
    ELSE NoError

\* lines 102-109: the bare `except:` takes whatever the wait or the click raises
PromptError(prompt) == NoError

(* lines 83-113: one attempt of _login: the statement that raised (stage),
   the error, and how often the location control was clicked. *)
LoginFlow(b, has_page, has_credentials) ==
    LET failed(stage, err, n) == [ok |-> FALSE, stage |-> stage, err |-> err, clicks |-> n]
        n == IF b.prompt = "absent" THEN 0 ELSE 1
    IN  IF ~has_page /\ ~b.setup THEN failed("setup", "BrowserError", 0)
        ELSE IF ~b.goto THEN failed("goto", "Error", 0)
        ELSE IF ~b.control THEN failed("login_control", "TimeoutError", 0)
        ELSE IF ~has_credentials THEN failed("fill", "TypeError", 0)
        ELSE IF ~b.fields THEN failed("fill", "TimeoutError", 0)
        ELSE IF ~b.click THEN failed("click", "Error", 0)
        ELSE IF PromptError(b.prompt) # NoError
        THEN failed("prompt", PromptError(b.prompt), n)
        ELSE IF ~b.idle THEN failed("load_state", "TimeoutError", n)
        ELSE [ok |-> TRUE, stage |-> "none", err |-> NoError, clicks |-> n]

InitLogin ==
    /\ retry = NewFrame("login", DefaultMaxRetries, DefaultDelay)
    /\ plan = <<>>
    /\ pc = "none"
    /\ balance = 0
    /\ has_blocking_wagers = FALSE
    /\ bet_placed = FALSE
    /\ screenshot_path = NonePath
    /\ final_balance = 0
    /\ exc = NoError
    /\ slip_payout = 0
    /\ calls = <<>>
    /\ sent = <<>>
    /\ reads = <<>>
    /\ files = {}
    /\ parlay = IdleParlay
    /\ session = FreshSession
    /\ facade = IdleFacade
    /\ proc = IdleProc
    /\ \E has_credentials \in BOOLEAN :
          unit = [IdleUnit EXCEPT
                     !.fn = "login", !.pc = "attempt",
                     !.input = [has_credentials |-> has_credentials],
                     !.env = [has_page |-> FALSE, last |-> <<>>]]

\* one attempt of _login under _retry_operation
LoginAttempt ==
    /\ unit.fn = "login"
    /\ retry.op = "login"
    /\ retry.status = "active"
    /\ \E b \in LoginPages :
          LET f == LoginFlow(b, unit.env.has_page, unit.input.has_credentials)
              r == RetryStep(retry, IF f.ok THEN OkOut(0) ELSE ErrOut(f.err))
          IN  /\ retry' = r
              /\ unit' = [unit EXCEPT
                     !.env = [has_page |-> unit.env.has_page \/ b.setup,
                              last |-> <<b>>],
                     !.log = Append(@, [ok |-> f.ok, stage |-> f.stage,
                                        clicks |-> f.clicks]),
                     !.pc = IF r.status = "active" THEN "attempt" ELSE "done",
                     !.result = IF r.status = "returned" THEN "None" ELSE "none",
                     !.raised = r.status = "raised"]
    /\ UNCHANGED <<plan, runVars, parlay, session, facade, proc>>

NextLogin == LoginAttempt

SpecLogin == InitLogin /\ [][NextLogin]_vars

\* the latest attempt of login: what the page did and what came of it
LastPage == unit.env.last[1]
LastAttempt == unit.log[Len(unit.log)]

(* C29 as stated  The location prompt is optional (an attempt does not fail
   for its absence, and a prompt that appears is clicked once), and login
   fails only if the login control never appears or navigation never
   stabilizes. *)
C29_LoginFailsOnlyIf ==
    (unit.fn = "login" /\ unit.log # <<>>) =>
        /\ LastAttempt.stage # "prompt"
        /\ LastAttempt.clicks <= 1
        /\ retry.status = "raised" => LastAttempt.stage \in {"login_control", "load_state"}

(* C29 amended  An attempt of login never fails at the wait for the location
   prompt: with the prompt absent it succeeds whenever every other step
   does, and a prompt that appears within the wait is clicked exactly once;
   login fails, after three failed attempts, only if in the last one the
   browser setup, the navigation to the login route, the wait for the login
   control, a credential fill, the login click or the final network-idle
   wait failed. *)
C29_PromptOptional ==
    (unit.fn = "login" /\ unit.log # <<>>) =>
        LET b == LastPage
            a == LastAttempt
            others_ok == /\ b.setup \/ (Len(unit.log) > 1 /\ unit.env.has_page)
                         /\ b.goto /\ b.control /\ b.fields /\ b.click /\ b.idle
                         /\ unit.input.has_credentials
            reached == b.goto /\ b.control /\ b.fields /\ b.click
                          /\ unit.input.has_credentials /\ a.stage # "setup"
        IN  /\ a.stage # "prompt"
            /\ (b.prompt = "absent" /\ others_ok) => a.ok
            /\ a.ok => b.goto /\ b.control /\ b.fields /\ b.click /\ b.idle
            /\ a.clicks = (IF reached /\ b.prompt # "absent" THEN 1 ELSE 0)
            /\ retry.status = "raised" =>
                  /\ retry.calls = DefaultMaxRetries
                  /\ a.stage \in {"setup", "goto", "login_control", "fill",
                                   "click", "load_state"}
            /\ retry.status = "returned" => a.ok

\* the second attempt succeeded although no location prompt appeared
C29_Witness ==
    /\ unit.fn = "login"
    /\ retry.status = "returned"
    /\ Len(unit.log) = 2
    /\ LastPage.prompt = "absent"
    /\ LastAttempt.clicks = 0
    /\ unit.log[1].stage = "load_state"
    /\ unit.log[1].clicks = 1

----------------------------------------------------------------------------
(* SpecPlaceBet: place_bet on a page that may behave differently on every
   attempt *)

\* wager amounts, in cents
Wagers == {0, 99, 180, 500, 599, 1000}

(* What the page does during one attempt: whether the wager input, the
   submit control and the success confirmation appear. *)
BetPages == [input : BOOLEAN, submit : BOOLEAN, confirm : BOOLEAN]

\* MUTANT of WagerText: the amount is rounded to the nearest unit
WagerTextRounded(wager) == (wager + 50) \div 100

\* line 311: str(int(wager_amount)), for an amount that is not negative
WagerText(wager) == wager \div 100

(* lines 302-321: one attempt of _place_bet: what it did on the page, in
   order, whether it clicked the submit control (line 316), and the statement
   that raised. *)
PlaceBetFlow(b, wager) ==
    LET shot == <<"take_bet_screenshot">>
        fill == <<"click_input", <<"fill", WagerText(wager)>>>>
    IN  IF ~b.input
        THEN [ok |-> FALSE, stage |-> "wager_input", submitted |-> FALSE,
              did |-> shot]
        ELSE IF ~b.submit
        THEN [ok |-> FALSE, stage |-> "submit", submitted |-> FALSE,
              did |-> shot \o fill]
        ELSE IF ~b.confirm
        THEN [ok |-> FALSE, stage |-> "confirmation", submitted |-> TRUE,
              did |-> shot \o fill \o <<"click_submit">>]
        ELSE [ok |-> TRUE, stage |-> "none", submitted |-> TRUE,
              did |-> shot \o fill \o <<"click_submit", "confirmation">>]

InitPlaceBet ==
    /\ retry = NewFrame("place_bet", DefaultMaxRetries, DefaultDelay)
    /\ plan = <<>>
    /\ pc = "none"
    /\ balance = 0
    /\ has_blocking_wagers = FALSE
    /\ bet_placed = FALSE
    /\ screenshot_path = NonePath
    /\ final_balance = 0
    /\ exc = NoError
    /\ slip_payout = 0
    /\ calls = <<>>
    /\ sent = <<>>
    /\ reads = <<>>
    /\ files = {}
    /\ parlay = IdleParlay
    /\ session = FreshSession
    /\ facade = IdleFacade
    /\ proc = IdleProc
    /\ \E wager \in Wagers :
          unit = [IdleUnit EXCEPT !.fn = "place_bet", !.pc = "attempt",
                                  !.input = [wager_amount |-> wager],
                                  !.env = [last |-> <<>>, did |-> <<>>,
                                           submits |-> 0]]

(* one attempt of _place_bet under _retry_operation; env.submits counts the
   submit clicks of the whole place_bet call *)
PlaceBetAttempt ==
    /\ unit.fn = "place_bet"
    /\ retry.op = "place_bet"
    /\ retry.status = "active"
    /\ \E b \in BetPages :
          LET f == PlaceBetFlow(b, unit.input.wager_amount)
              r == RetryStep(retry, IF f.ok THEN OkOut(1) ELSE ErrOut("TimeoutError"))
          IN  /\ retry' = r
              /\ unit' = [unit EXCEPT
                     !.env = [last |-> <<b>>, did |-> f.did,
                              submits |-> unit.env.submits
                                          + (IF f.submitted THEN 1 ELSE 0)],
                     !.log = Append(@, f.stage),
                     !.pc = IF r.status = "active" THEN "attempt" ELSE "done",
                     !.result = IF r.status = "returned" THEN "True" ELSE "none",
                     !.raised = r.status = "raised"]
    /\ UNCHANGED <<plan, runVars, parlay, session, facade, proc>>

NextPlaceBet == PlaceBetAttempt

SpecPlaceBet == InitPlaceBet /\ [][NextPlaceBet]_vars

(* C30  place_bet returns True only if, in the attempt that returns, the
   wager input was filled with the integer part of wager_amount, the submit
   control was then clicked and the success confirmation appeared after
   that; when the submit control or the confirmation is missing in the last
   of the bounded attempts, place_bet raises. *)
C30_PlaceBetReturns ==
    (unit.fn = "place_bet" /\ unit.log # <<>>) =>
        LET b == unit.env.last[1]
            did == unit.env.did
            w == unit.input.wager_amount
        IN  /\ unit.result = "True" =>
                  /\ retry.status = "returned"
                  /\ Len(did) = 5
                  /\ did[3][1] = "fill"
                  /\ did[3][2] * 100 <= w /\ w < (did[3][2] + 1) * 100
                  /\ did[4] = "click_submit"
                  /\ did[5] = "confirmation"
                  /\ b.input /\ b.submit /\ b.confirm
            /\ (unit.pc = "done" /\ (~b.submit \/ ~b.confirm)) =>
                  /\ unit.raised
                  /\ unit.result = "none"
                  /\ retry.calls = DefaultMaxRetries
            /\ unit.pc = "done" => (unit.raised \/ unit.result = "True")

\* the bet went through on the third attempt with a wager of 5.99
C30_Witness ==
    /\ unit.fn = "place_bet"
    /\ unit.result = "True"
    /\ unit.input.wager_amount = 599
    /\ unit.log = <<"submit", "confirmation", "none">>
    /\ unit.env.did[3] = <<"fill", 5>>

----------------------------------------------------------------------------
(* C31: when a step of run() raises and take_error_screenshot returns the
   empty path, the handler still sends the error notification with the
   exception's message and the empty path, for which the notifier attempts no
   photo; the finally clause then calls close() and leaves the files on disk
   as they were (no removal is attempted). *)
C31_ErrorScreenshotFailed ==
    [][ /\ (pc \in TryPcs /\ Raised /\ pc' = "finally"
              /\ proc'.run_raised = proc.run_raised /\ screenshot_path' = "")
           => /\ sent' = Append(sent, Note("error", RaisedError, 0, 0, ""))
              /\ ~AttachPhoto("send_error_notification",
                              sent'[Len(sent')].path, TRUE)
              /\ files' = files
        /\ (pc = "finally" /\ Raised /\ screenshot_path = "")
           => /\ calls' = Append(calls, "close")
              /\ files' = files
              /\ pc' = "done" ]_vars

C31_Witness ==
    /\ pc = "done"
    /\ Raised
    /\ screenshot_path = ""
    /\ Len(ErrorNotes) = 1
    /\ ErrorNotes[1].text = RaisedError
    /\ calls[Len(calls)] = "close"
    /\ BetSlipPath \in files

----------------------------------------------------------------------------
(* C32: during one call of place_bet, all of its retry attempts included,
   the submit control is clicked at most once. *)
C32_SubmitAtMostOnce ==
    unit.fn = "place_bet" => unit.env.submits <= 1

----------------------------------------------------------------------------
(* SpecStrategy: one call of execute_betting_strategy, the attempts of
   _execute_strategy under _retry_operation (line 269) *)

MaxLegs == 2

InitStrategy ==
    /\ \E n \in 0..MaxLegs : \E games \in [1..n -> Cards] :
          parlay = [IdleParlay EXCEPT !.pc = "scan", !.games = games,
                                      !.min = min_payout_threshold,
                                      !.max = max_payout_threshold]
    /\ retry = NewFrame("betting_strategy", DefaultMaxRetries, DefaultDelay)
    /\ plan = <<>>
    /\ unit = IdleUnit
    /\ pc = "none"
    /\ balance = 0
    /\ has_blocking_wagers = FALSE
    /\ bet_placed = FALSE
    /\ screenshot_path = NonePath
    /\ final_balance = 0
    /\ exc = NoError
    /\ slip_payout = 0
    /\ calls = <<>>
    /\ sent = <<>>
    /\ reads = <<>>
    /\ files = {}
    /\ session = FreshSession
    /\ facade = IdleFacade
    /\ proc = IdleProc

(* lines 69-79 around _execute_strategy: the attempt's return value ends the
   call; an exception is retried while attempts remain, and the next attempt
   starts _execute_strategy again with fresh locals (line 245:
   current_payout = 1.0, line 246: parlay_selections = []) on the same page. *)
StrategyRetry ==
    /\ parlay.pc = "done"
    /\ retry.op = "betting_strategy"
    /\ retry.status = "active"
    /\ LET out == IF parlay.result = "raised" THEN ErrOut("TimeoutError")
                  ELSE OkOut(IF parlay.result = "True" THEN 1 ELSE 0)
           r == RetryStep(retry, out)
       IN  /\ retry' = r
           /\ parlay' = IF r.status = "active"
                        THEN [parlay EXCEPT !.pc = "scan", !.safe_games = <<>>,
                                 !.idx = 1, !.current_payout = 100,
                                 !.parlay_selections = <<>>, !.clicked = <<>>,
                                 !.payouts = <<>>, !.result = "none"]
                        ELSE [parlay EXCEPT !.pc = "returned"]
    /\ UNCHANGED <<plan, unit, runVars, session, facade, proc>>

NextStrategy ==
    \/ StrategyScan
    \/ StrategyAdd
    \/ StrategyFinish
    \/ StrategyRetry

SpecStrategy == InitStrategy /\ [][NextStrategy]_vars

(* C33: during one call of execute_betting_strategy, all of its retry
   attempts included, no proposal is clicked twice, and while the loop runs
   the legs clicked on the slip during the call are exactly the legs the
   running attempt has counted since it set current_payout to 1.0. *)
C33_LegsClickedOnce ==
    /\ \A i, j \in DOMAIN parlay.slip :
          parlay.slip[i] = parlay.slip[j] => i = j
    /\ parlay.pc = "loop" => parlay.slip = parlay.parlay_selections

----------------------------------------------------------------------------
(* C34: at the end of a run every browser that _setup_browser launched has
   been handed to close(): no browser other than the one self.browser refers
   to (whose own close() call may have raised) is still open. *)
C34_BrowsersReleased ==
    pc = "done" =>
        \A n \in 1..session.launched :
            Res("browser", n) \in session.open => n = session.browser

----------------------------------------------------------------------------
(* C35: at the end of every run no screenshot file written during the run
   is left on disk, also when a later step raised after the bet-slip
   screenshot or when close() raised during cleanup. *)
C35_NoScreenshotLeft ==
    pc = "done" => files = {}

----------------------------------------------------------------------------
(* SpecLive: one execution of run() in which every call of a browser,
   control-plane or messaging primitive returns or raises, so that run()
   always takes its next step *)

SpecLive == Init /\ [][Next]_vars /\ WF_vars(Next)

(* C36: every run terminates: run() reaches the end of its finally clause. *)
C36_RunTerminates == <>(pc = "done")

C36_Witness ==
    /\ pc = "done"
    /\ retry.op = "get_balance"
    /\ retry.status = "raised"
    /\ retry.calls = retry.max
    /\ Count(calls, "take_bet_screenshot") = 1
    /\ Count(calls, "check_and_claim_rewards") = 1
    /\ Count(calls, "close") = 1

====
